---- MODULE Spec2Model ----
(***************************************************************************)
(* ShopWithDanny: the in-memory store (server/storage.ts), the HTTP routes *)
(* in front of it (server/routes.ts) and the checkout step machine of the  *)
(* client (client/src/pages/checkout-page.tsx).                            *)
(*                                                                         *)
(* Encodings.  An optional value (undefined | x) is a sequence of length 0 *)
(* or 1.  A decimal string such as '129.99' is its number of cents, which  *)
(* is what Number() orders it by.  A text is a sequence of one-character   *)
(* strings.  A Date is the integer yyyymmdd (seed data) or a tick of the   *)
(* clock (orders).  A Map is a function on its key set; its iteration      *)
(* order is insertion order, which for every Map of MemStorage is the      *)
(* ascending order of the keys, because keys come from a counter that only *)
(* grows and set() on a present key keeps the key's position.              *)
(***************************************************************************)
EXTENDS Integers, Sequences, FiniteSets, TLC

VARIABLES
  cartItems,     \* MemStorage.cartItems : id -> CartItem
  cartItemId,    \* MemStorage.cartItemId, the next cart item id
  orders,        \* MemStorage.orders : id -> Order
  orderItems,    \* MemStorage.orderItems : id -> OrderItem
  orderId,       \* MemStorage.orderId, the next order id
  orderItemId,   \* MemStorage.orderItemId, the next order item id
  clock,         \* the time new Date() read at the latest createOrder
  calls,         \* the calls of MemStorage methods made concurrently, in call order
  location,      \* the client's route: CheckoutPage is mounted at "/checkout"
  clientCartItems, \* cartItems of useCart(), the client's copy of the user's cart
  checkoutStep,  \* CheckoutPage.checkoutStep
  form,          \* the values of the checkout form (useForm)
  createOrderMutation, \* the status of createOrderMutation and its request
  orderResponse, \* the status of the answer to the order request, on its way
  clearCartMutation, \* the status of clearCartMutation of CartProvider
  cartQuery,     \* the query ['/api/cart'] of CartProvider: fresh or invalidated
  last           \* the latest call, request or event and its result

storeVars == <<cartItems, cartItemId, orders, orderItems, orderId, orderItemId, clock,
               calls>>

netVars == <<orderResponse, clearCartMutation, cartQuery>>

clientVars == <<location, clientCartItems, checkoutStep, form, createOrderMutation,
                orderResponse, clearCartMutation, cartQuery>>

vars == <<cartItems, cartItemId, orders, orderItems, orderId, orderItemId, clock, calls,
          location, clientCartItems, checkoutStep, form, createOrderMutation,
          orderResponse, clearCartMutation, cartQuery, last>>

(***************************************************************************)
(* Bounds of the model.                                                    *)
(***************************************************************************)
MaxCartItemId == 2

MaxQuantity == 2

MaxOrderId == 2

MaxOrderItemId == 2

MaxClock == 1

\* the ids of the registered users
Users == {1, 2}

None == <<>>

Some(x) == <<x>>

Min(a, b) == IF a <= b THEN a ELSE b

Max(a, b) == IF a >= b THEN a ELSE b

(***************************************************************************)
(* Map helpers: Array.from(map.values()), map.set, map.delete.             *)
(***************************************************************************)
RECURSIVE Ascending(_)
Ascending(S) ==
  IF S = {} THEN <<>>
  ELSE LET m == CHOOSE x \in S : \A y \in S : x <= y
       IN  <<m>> \o Ascending(S \ {m})

MapValues(m) ==
  LET keys == Ascending(DOMAIN m)
  IN  [i \in 1..Len(keys) |-> m[keys[i]]]

MapSet(m, k, v) == [x \in (DOMAIN m) \cup {k} |-> IF x = k THEN v ELSE m[x]]

MapDelete(m, k) == [x \in (DOMAIN m) \ {k} |-> m[x]]

EmptyMap == <<>>

(***************************************************************************)
(* Texts: String.prototype.toLowerCase and String.prototype.includes.      *)
(***************************************************************************)
UpperCase == <<"A","B","C","D","E","F","G","H","I","J","K","L","M","N","O","P","Q","R","S","T","U","V","W","X","Y","Z">>

LowerCase == <<"a","b","c","d","e","f","g","h","i","j","k","l","m","n","o","p","q","r","s","t","u","v","w","x","y","z">>

\* the lower-case letter of every upper-case letter
upperToLower ==
  [c \in {UpperCase[i] : i \in 1..26} |->
     LowerCase[CHOOSE i \in 1..26 : UpperCase[i] = c]]

toLowerCaseChar(c) == IF c \in DOMAIN upperToLower THEN upperToLower[c] ELSE c

toLowerCase(t) == [i \in 1..Len(t) |-> toLowerCaseChar(t[i])]

includes(t, s) ==
  \E k \in 0..(Len(t) - Len(s)) : \A i \in 1..Len(s) : t[k + i] = s[i]

(***************************************************************************)
(* The catalog: seedData() of MemStorage.  Products have no update path.   *)
(***************************************************************************)
productData ==
  <<
  [id |-> 1, name |-> <<"W","i","r","e","l","e","s","s"," ","H","e","a","d","p","h","o","n","e","s">>,
   description |-> <<"P","r","e","m","i","u","m"," ","s","o","u","n","d"," ","q","u","a","l","i","t","y"," ","w","i","t","h"," ","n","o","i","s","e"," ","c","a","n","c","e","l","l","a","t","i","o","n">>,
   price |-> 12999, oldPrice |-> <<15999>>, categoryId |-> 1, rating |-> 45,
   isFeatured |-> TRUE, createdAt |-> 20230301],
  [id |-> 2, name |-> <<"S","m","a","r","t"," ","W","a","t","c","h"," ","S","e","r","i","e","s"," ","5">>,
   description |-> <<"F","i","t","n","e","s","s"," ","t","r","a","c","k","i","n","g"," ","w","i","t","h"," ","h","e","a","r","t"," ","r","a","t","e"," ","m","o","n","i","t","o","r">>,
   price |-> 8999, oldPrice |-> <<11999>>, categoryId |-> 1, rating |-> 40,
   isFeatured |-> TRUE, createdAt |-> 20230215],
  [id |-> 3, name |-> <<"S","l","i","m"," ","F","i","t"," ","D","r","e","s","s"," ","S","h","i","r","t">>,
   description |-> <<"1","0","0","%"," ","c","o","t","t","o","n",","," ","w","r","i","n","k","l","e","-","r","e","s","i","s","t","a","n","t"," ","f","a","b","r","i","c">>,
   price |-> 4999, oldPrice |-> <<>>, categoryId |-> 2, rating |-> 49,
   isFeatured |-> TRUE, createdAt |-> 20230120],
  [id |-> 4, name |-> <<"U","r","b","a","n"," ","R","u","n","n","e","r"," ","S","n","e","a","k","e","r","s">>,
   description |-> <<"L","i","g","h","t","w","e","i","g","h","t"," ","w","i","t","h"," ","c","u","s","h","i","o","n","e","d"," ","i","n","s","o","l","e">>,
   price |-> 7999, oldPrice |-> <<9999>>, categoryId |-> 2, rating |-> 42,
   isFeatured |-> TRUE, createdAt |-> 20230201],
  [id |-> 5, name |-> <<"D","e","s","i","g","n","e","r"," ","S","u","n","g","l","a","s","s","e","s">>,
   description |-> <<"U","V"," ","p","r","o","t","e","c","t","i","o","n"," ","w","i","t","h"," ","s","t","y","l","i","s","h"," ","f","r","a","m","e">>,
   price |-> 5999, oldPrice |-> <<>>, categoryId |-> 2, rating |-> 40,
   isFeatured |-> FALSE, createdAt |-> 20230310],
  [id |-> 6, name |-> <<"O","u","t","d","o","o","r"," ","A","d","v","e","n","t","u","r","e"," ","B","a","c","k","p","a","c","k">>,
   description |-> <<"D","u","r","a","b","l","e",","," ","w","a","t","e","r","-","r","e","s","i","s","t","a","n","t"," ","d","e","s","i","g","n">>,
   price |-> 7999, oldPrice |-> <<>>, categoryId |-> 5, rating |-> 44,
   isFeatured |-> FALSE, createdAt |-> 20230305],
  [id |-> 7, name |-> <<"S","m","a","r","t"," ","C","o","f","f","e","e"," ","M","a","k","e","r">>,
   description |-> <<"P","r","o","g","r","a","m","m","a","b","l","e"," ","w","i","t","h"," ","a","p","p"," ","c","o","n","t","r","o","l">>,
   price |-> 12999, oldPrice |-> <<>>, categoryId |-> 3, rating |-> 47,
   isFeatured |-> FALSE, createdAt |-> 20230315],
  [id |-> 8, name |-> <<"P","e","r","f","o","r","m","a","n","c","e"," ","R","u","n","n","i","n","g"," ","S","h","o","e","s">>,
   description |-> <<"L","i","g","h","t","w","e","i","g","h","t"," ","w","i","t","h"," ","r","e","s","p","o","n","s","i","v","e"," ","c","u","s","h","i","o","n","i","n","g">>,
   price |-> 11999, oldPrice |-> <<>>, categoryId |-> 5, rating |-> 48,
   isFeatured |-> FALSE, createdAt |-> 20230320],
  [id |-> 9, name |-> <<"P","r","e","m","i","u","m"," ","S","m","a","r","t","w","a","t","c","h">>,
   description |-> <<"H","e","a","l","t","h"," ","t","r","a","c","k","i","n","g"," ","w","i","t","h"," ","A","M","O","L","E","D"," ","d","i","s","p","l","a","y">>,
   price |-> 19999, oldPrice |-> <<>>, categoryId |-> 1, rating |-> 49,
   isFeatured |-> FALSE, createdAt |-> 20230325],
  [id |-> 10, name |-> <<"L","u","x","u","r","y"," ","S","k","i","n","c","a","r","e"," ","S","e","t">>,
   description |-> <<"O","r","g","a","n","i","c"," ","i","n","g","r","e","d","i","e","n","t","s",","," ","v","e","g","a","n","-","f","r","i","e","n","d","l","y">>,
   price |-> 8999, oldPrice |-> <<>>, categoryId |-> 4, rating |-> 46,
   isFeatured |-> FALSE, createdAt |-> 20230318],
  [id |-> 11, name |-> <<"A","r","o","m","a","t","h","e","r","a","p","y"," ","C","a","n","d","l","e"," ","S","e","t">>,
   description |-> <<"N","a","t","u","r","a","l"," ","s","o","y"," ","w","a","x"," ","w","i","t","h"," ","e","s","s","e","n","t","i","a","l"," ","o","i","l","s">>,
   price |-> 3999, oldPrice |-> <<>>, categoryId |-> 3, rating |-> 43,
   isFeatured |-> FALSE, createdAt |-> 20230322],
  [id |-> 12, name |-> <<"W","a","t","e","r","p","r","o","o","f"," ","B","l","u","e","t","o","o","t","h"," ","S","p","e","a","k","e","r">>,
   description |-> <<"2","4","-","h","o","u","r"," ","b","a","t","t","e","r","y"," ","w","i","t","h"," ","d","e","e","p"," ","b","a","s","s">>,
   price |-> 6999, oldPrice |-> <<>>, categoryId |-> 1, rating |-> 45,
   isFeatured |-> FALSE, createdAt |-> 20230328],
  [id |-> 13, name |-> <<"P","r","o"," ","F","o","o","t","b","a","l","l"," ","C","l","e","a","t","s">>,
   description |-> <<"H","i","g","h"," ","t","r","a","c","t","i","o","n",","," ","l","i","g","h","t","w","e","i","g","h","t"," ","c","l","e","a","t","s"," ","f","o","r"," ","o","p","t","i","m","a","l"," ","p","e","r","f","o","r","m","a","n","c","e"," ","o","n"," ","t","h","e"," ","f","i","e","l","d">>,
   price |-> 8999, oldPrice |-> <<11999>>, categoryId |-> 5, rating |-> 47,
   isFeatured |-> TRUE, createdAt |-> 20230329],
  [id |-> 14, name |-> <<"T","e","a","m"," ","F","o","o","t","b","a","l","l"," ","J","e","r","s","e","y">>,
   description |-> <<"O","f","f","i","c","i","a","l"," ","t","e","a","m"," ","j","e","r","s","e","y"," ","w","i","t","h"," ","m","o","i","s","t","u","r","e","-","w","i","c","k","i","n","g"," ","t","e","c","h","n","o","l","o","g","y">>,
   price |-> 6999, oldPrice |-> <<>>, categoryId |-> 5, rating |-> 45,
   isFeatured |-> FALSE, createdAt |-> 20230330],
  [id |-> 15, name |-> <<"A","t","h","l","e","t","i","c"," ","P","e","r","f","o","r","m","a","n","c","e"," ","S","o","c","k","s">>,
   description |-> <<"C","u","s","h","i","o","n","e","d",","," ","a","n","t","i","-","b","l","i","s","t","e","r"," ","s","o","c","k","s"," ","f","o","r"," ","a","l","l"," ","s","p","o","r","t","s">>,
   price |-> 1499, oldPrice |-> <<1999>>, categoryId |-> 5, rating |-> 43,
   isFeatured |-> FALSE, createdAt |-> 20230315],
  [id |-> 16, name |-> <<"P","r","e","m","i","u","m"," ","K","n","i","f","e"," ","S","e","t">>,
   description |-> <<"P","r","o","f","e","s","s","i","o","n","a","l"," ","g","r","a","d","e"," ","s","t","a","i","n","l","e","s","s"," ","s","t","e","e","l"," ","k","n","i","f","e"," ","s","e","t"," ","w","i","t","h"," ","w","o","o","d","e","n"," ","b","l","o","c","k">>,
   price |-> 12999, oldPrice |-> <<15999>>, categoryId |-> 3, rating |-> 48,
   isFeatured |-> TRUE, createdAt |-> 20230325],
  [id |-> 17, name |-> <<"S","i","l","i","c","o","n","e"," ","C","o","o","k","i","n","g"," ","U","t","e","n","s","i","l"," ","S","e","t">>,
   description |-> <<"H","e","a","t","-","r","e","s","i","s","t","a","n","t",","," ","n","o","n","-","s","t","i","c","k"," ","s","i","l","i","c","o","n","e"," ","u","t","e","n","s","i","l","s"," ","f","o","r"," ","e","v","e","r","y","d","a","y"," ","c","o","o","k","i","n","g">>,
   price |-> 3499, oldPrice |-> <<>>, categoryId |-> 3, rating |-> 46,
   isFeatured |-> FALSE, createdAt |-> 20230220],
  [id |-> 18, name |-> <<"D","i","g","i","t","a","l"," ","K","i","t","c","h","e","n"," ","S","c","a","l","e">>,
   description |-> <<"P","r","e","c","i","s","e"," ","m","e","a","s","u","r","e","m","e","n","t","s"," ","f","o","r"," ","a","l","l"," ","y","o","u","r"," ","c","o","o","k","i","n","g"," ","a","n","d"," ","b","a","k","i","n","g"," ","n","e","e","d","s">>,
   price |-> 1999, oldPrice |-> <<2499>>, categoryId |-> 3, rating |-> 44,
   isFeatured |-> FALSE, createdAt |-> 20230115],
  [id |-> 19, name |-> <<"E","s","s","e","n","t","i","a","l"," ","C","o","t","t","o","n"," ","T","-","S","h","i","r","t">>,
   description |-> <<"S","o","f","t",","," ","b","r","e","a","t","h","a","b","l","e"," ","1","0","0","%"," ","c","o","t","t","o","n"," ","t","-","s","h","i","r","t"," ","i","n"," ","a"," ","v","a","r","i","e","t","y"," ","o","f"," ","c","o","l","o","r","s">>,
   price |-> 1999, oldPrice |-> <<>>, categoryId |-> 2, rating |-> 44,
   isFeatured |-> FALSE, createdAt |-> 20230210],
  [id |-> 20, name |-> <<"C","o","m","f","o","r","t"," ","F","i","t"," ","J","o","g","g","e","r","s">>,
   description |-> <<"C","a","s","u","a","l",","," ","t","a","p","e","r","e","d"," ","j","o","g","g","e","r","s"," ","w","i","t","h"," ","e","l","a","s","t","i","c"," ","w","a","i","s","t","b","a","n","d"," ","a","n","d"," ","p","o","c","k","e","t","s">>,
   price |-> 3999, oldPrice |-> <<4999>>, categoryId |-> 2, rating |-> 47,
   isFeatured |-> TRUE, createdAt |-> 20230305]
  >>

products == [id \in 1..Len(productData) |-> productData[id]]

\* MemStorage.getProduct
getProduct(id) == IF id \in DOMAIN products THEN Some(products[id]) ELSE None

(***************************************************************************)
(* Catalog queries.  An options object is a record of optional fields.     *)
(***************************************************************************)
\* JavaScript truthiness of an optional number, boolean and text
TruthyNum(o) == o # None /\ o[1] # 0

TruthyBool(o) == o # None /\ o[1]

TruthyText(o) == o # None /\ o[1] # <<>>

matchesSearch(p, search) ==
  \/ includes(toLowerCase(p.name), toLowerCase(search))
  \/ includes(toLowerCase(p.description), toLowerCase(search))

\* a comparator that ignores the sort key
compareById(sort, a, b) == a.id - b.id

\* the comparator getProducts hands to Array.prototype.sort: negative, zero
\* or positive
compare(sort, a, b) ==
  CASE sort = "price-asc"  -> a.price - b.price
    [] sort = "price-desc" -> b.price - a.price
    [] sort = "newest"     -> b.createdAt - a.createdAt
    [] sort = "rating"     -> b.rating - a.rating
    [] OTHER               -> a.id - b.id

\* Array.prototype.sort is stable: x goes after every element that does not
\* compare greater than it
RECURSIVE insertSorted(_, _, _)
insertSorted(sort, sorted, x) ==
  IF sorted = <<>> THEN <<x>>
  ELSE IF compare(sort, Head(sorted), x) <= 0
       THEN <<Head(sorted)>> \o insertSorted(sort, Tail(sorted), x)
       ELSE <<x>> \o sorted

RECURSIVE sortBy(_, _)
sortBy(sort, s) ==
  IF s = <<>> THEN <<>>
  ELSE insertSorted(sort, sortBy(sort, SubSeq(s, 1, Len(s) - 1)), s[Len(s)])

\* Array.prototype.slice(start, end) for integer arguments
slice(s, start, end) ==
  LET from == IF start < 0 THEN Max(Len(s) + start, 0) ELSE Min(start, Len(s))
      to   == IF end < 0 THEN Max(Len(s) + end, 0) ELSE Min(end, Len(s))
  IN  SubSeq(s, from + 1, to)

\* MemStorage.getProducts
getProducts(options) ==
  LET all == MapValues(products)
      InCategory(p) == p.categoryId = options.categoryId[1]
      Featured(p)   == p.isFeatured
      Matches(p)    == matchesSearch(p, options.search[1])
      r1 == IF TruthyNum(options.categoryId) THEN SelectSeq(all, InCategory) ELSE all
      r2 == IF TruthyBool(options.featured) THEN SelectSeq(r1, Featured) ELSE r1
      r3 == IF TruthyText(options.search) THEN SelectSeq(r2, Matches) ELSE r2
      r4 == IF options.sort # None /\ options.sort[1] # "" THEN sortBy(options.sort[1], r3) ELSE r3
  IN  IF options.offset # None /\ options.limit # None
      THEN slice(r4, options.offset[1], options.offset[1] + options.limit[1])
      ELSE r4

\* MemStorage.getProductCount: its options carry categoryId and search only
getProductCount(options) ==
  LET all == MapValues(products)
      InCategory(p) == p.categoryId = options.categoryId[1]
      Matches(p)    == matchesSearch(p, options.search[1])
      f1 == IF TruthyNum(options.categoryId) THEN SelectSeq(all, InCategory) ELSE all
      f2 == IF TruthyText(options.search) THEN SelectSeq(f1, Matches) ELSE f1
  IN  IF TruthyNum(options.categoryId) \/ TruthyText(options.search)
      THEN Len(f2)
      ELSE Cardinality(DOMAIN products)

(***************************************************************************)
(* Cart methods of MemStorage.  A method that writes is an operator that   *)
(* yields the fields it assigns and the value it returns.                  *)
(***************************************************************************)
\* MemStorage.getCartItems: the user's line items, each joined with its
\* product (product! is undefined when the product is absent)
getCartItems(userId) ==
  LET Owned(item) == item.userId = userId
      items == SelectSeq(MapValues(cartItems), Owned)
  IN  [i \in 1..Len(items) |->
         [id |-> items[i].id, userId |-> items[i].userId,
          productId |-> items[i].productId, quantity |-> items[i].quantity,
          product |-> getProduct(items[i].productId)]]

\* MemStorage.getCartItem: find yields the first match in iteration order
getCartItem(userId, productId) ==
  LET Same(item) == item.userId = userId /\ item.productId = productId
      hits == SelectSeq(MapValues(cartItems), Same)
  IN  IF hits = <<>> THEN None ELSE Some(Head(hits))

\* addCartItem without the lookup: every call inserts a new line item
addCartItemAlwaysInsert(insertCartItem) ==
  LET cartItem == [id |-> cartItemId, userId |-> insertCartItem.userId,
                   productId |-> insertCartItem.productId,
                   quantity |-> insertCartItem.quantity]
  IN  [cartItems  |-> MapSet(cartItems, cartItemId, cartItem),
       cartItemId |-> cartItemId + 1,
       ret        |-> cartItem]

\* addCartItem that overwrites the quantity of a present line item
addCartItemOverwrite(insertCartItem) ==
  LET existingItem == getCartItem(insertCartItem.userId, insertCartItem.productId)
  IN  IF existingItem # None
      THEN LET updatedItem == [existingItem[1] EXCEPT
                                 !.quantity = insertCartItem.quantity]
           IN  [cartItems  |-> MapSet(cartItems, updatedItem.id, updatedItem),
                cartItemId |-> cartItemId,
                ret        |-> updatedItem]
      ELSE addCartItemAlwaysInsert(insertCartItem)

\* addCartItem that gives a new line the smallest id no line holds
addCartItemSmallestFreeId(insertCartItem) ==
  LET existingItem == getCartItem(insertCartItem.userId, insertCartItem.productId)
      free == (1..cartItemId) \ DOMAIN cartItems
      id == CHOOSE k \in free : \A j \in free : k <= j
  IN  IF existingItem # None
      THEN LET updatedItem == [existingItem[1] EXCEPT
                                 !.quantity = @ + insertCartItem.quantity]
           IN  [cartItems  |-> MapSet(cartItems, updatedItem.id, updatedItem),
                cartItemId |-> cartItemId,
                ret        |-> updatedItem]
      ELSE LET cartItem == [id |-> id, userId |-> insertCartItem.userId,
                            productId |-> insertCartItem.productId,
                            quantity |-> insertCartItem.quantity]
           IN  [cartItems  |-> MapSet(cartItems, id, cartItem),
                cartItemId |-> Max(cartItemId, id + 1),
                ret        |-> cartItem]

\* MemStorage.addCartItem
addCartItem(insertCartItem) ==
  LET existingItem == getCartItem(insertCartItem.userId, insertCartItem.productId)
  IN  IF existingItem # None
      THEN LET updatedItem == [existingItem[1] EXCEPT
                                 !.quantity = @ + insertCartItem.quantity]
           IN  [cartItems  |-> MapSet(cartItems, updatedItem.id, updatedItem),
                cartItemId |-> cartItemId,
                ret        |-> updatedItem]
      ELSE LET cartItem == [id |-> cartItemId, userId |-> insertCartItem.userId,
                            productId |-> insertCartItem.productId,
                            quantity |-> insertCartItem.quantity]
           IN  [cartItems  |-> MapSet(cartItems, cartItemId, cartItem),
                cartItemId |-> cartItemId + 1,
                ret        |-> cartItem]

\* updateCartItem that sets the quantity whether or not the id is present
updateCartItemUpsert(id, quantity) ==
  LET updatedItem == [id |-> id, userId |-> 1, productId |-> 1, quantity |-> quantity]
  IN  [cartItems |-> MapSet(cartItems, id, updatedItem), ret |-> Some(updatedItem)]

\* MemStorage.updateCartItem
updateCartItem(id, quantity) ==
  IF id \notin DOMAIN cartItems
  THEN [cartItems |-> cartItems, ret |-> None]
  ELSE LET updatedItem == [cartItems[id] EXCEPT !.quantity = quantity]
       IN  [cartItems |-> MapSet(cartItems, id, updatedItem), ret |-> Some(updatedItem)]

\* MemStorage.removeCartItem
removeCartItem(id) == MapDelete(cartItems, id)

\* clearCart that empties the whole map
clearCartOfEveryone(userId) == EmptyMap

\* MemStorage.clearCart
clearCart(userId) ==
  LET userCartItems == {id \in DOMAIN cartItems : cartItems[id].userId = userId}
  IN  [id \in (DOMAIN cartItems) \ userCartItems |-> cartItems[id]]

(***************************************************************************)
(* Order methods of MemStorage.  The status of an InsertOrder is optional  *)
(* (the column has a default, which MemStorage does not apply).            *)
(***************************************************************************)
\* createOrder that leaves the counter of the line items where it was
createOrderKeepItemId(orderData, items, now) ==
  LET id == orderId
      order == [id |-> id, userId |-> orderData.userId, total |-> orderData.total,
                status |-> orderData.status, createdAt |-> now]
      newIds == orderItemId..(orderItemId + Len(items) - 1)
      orderItem(k) == [id |-> k, orderId |-> id,
                       productId |-> items[k - orderItemId + 1].productId,
                       quantity |-> items[k - orderItemId + 1].quantity,
                       price |-> items[k - orderItemId + 1].price]
  IN  [orders      |-> MapSet(orders, id, order),
       orderItems  |-> [k \in (DOMAIN orderItems) \cup newIds |->
                          IF k \in newIds THEN orderItem(k) ELSE orderItems[k]],
       orderId     |-> orderId + 1,
       orderItemId |-> orderItemId,
       ret         |-> order]

\* createOrder that reads each line's price from the catalog
createOrderLivePrice(orderData, items, now) ==
  LET id == orderId
      order == [id |-> id, userId |-> orderData.userId, total |-> orderData.total,
                status |-> orderData.status, createdAt |-> now]
      newIds == orderItemId..(orderItemId + Len(items) - 1)
      orderItem(k) == [id |-> k, orderId |-> id,
                       productId |-> items[k - orderItemId + 1].productId,
                       quantity |-> items[k - orderItemId + 1].quantity,
                       price |-> products[items[k - orderItemId + 1].productId].price]
  IN  [orders      |-> MapSet(orders, id, order),
       orderItems  |-> [k \in (DOMAIN orderItems) \cup newIds |->
                          IF k \in newIds THEN orderItem(k) ELSE orderItems[k]],
       orderId     |-> orderId + 1,
       orderItemId |-> orderItemId + Len(items),
       ret         |-> order]

\* MemStorage.createOrder; now is the value of new Date()
createOrder(orderData, items, now) ==
  LET id == orderId
      order == [id |-> id, userId |-> orderData.userId, total |-> orderData.total,
                status |-> orderData.status, createdAt |-> now]
      newIds == orderItemId..(orderItemId + Len(items) - 1)
      orderItem(k) == [id |-> k, orderId |-> id,
                       productId |-> items[k - orderItemId + 1].productId,
                       quantity |-> items[k - orderItemId + 1].quantity,
                       price |-> items[k - orderItemId + 1].price]
  IN  [orders      |-> MapSet(orders, id, order),
       orderItems  |-> [k \in (DOMAIN orderItems) \cup newIds |->
                          IF k \in newIds THEN orderItem(k) ELSE orderItems[k]],
       orderId     |-> orderId + 1,
       orderItemId |-> orderItemId + Len(items),
       ret         |-> order]

\* MemStorage.getOrders: the user's orders, newest first (the sort is stable)
RECURSIVE insertNewestFirst(_, _)
insertNewestFirst(sorted, x) ==
  IF sorted = <<>> THEN <<x>>
  ELSE IF Head(sorted).createdAt >= x.createdAt
       THEN <<Head(sorted)>> \o insertNewestFirst(Tail(sorted), x)
       ELSE <<x>> \o sorted

RECURSIVE sortNewestFirst(_)
sortNewestFirst(s) ==
  IF s = <<>> THEN <<>>
  ELSE insertNewestFirst(sortNewestFirst(SubSeq(s, 1, Len(s) - 1)), s[Len(s)])

\* getOrders without the sort: the user's orders as the Map yields them
getOrdersUnsorted(userId) ==
  LET Owned(order) == order.userId = userId
  IN  SelectSeq(MapValues(orders), Owned)

getOrders(userId) ==
  LET Owned(order) == order.userId = userId
  IN  sortNewestFirst(SelectSeq(MapValues(orders), Owned))

\* MemStorage.getOrder: None when the order is absent, otherwise the order
\* with its line items, each joined with its product
getOrder(id) ==
  IF id \notin DOMAIN orders THEN None
  ELSE LET OfOrder(item) == item.orderId = id
           its == SelectSeq(MapValues(orderItems), OfOrder)
       IN  Some([id |-> id, userId |-> orders[id].userId, total |-> orders[id].total,
                 status |-> orders[id].status, createdAt |-> orders[id].createdAt,
                 items |-> [i \in 1..Len(its) |->
                              [id |-> its[i].id, orderId |-> its[i].orderId,
                               productId |-> its[i].productId,
                               quantity |-> its[i].quantity, price |-> its[i].price,
                               product |-> getProduct(its[i].productId)]]])

(***************************************************************************)
(* Inputs of the calls.                                                    *)
(***************************************************************************)
\* product ids the callers name
ProductIds == {1, 2}

\* quantities the callers add
AddQuantities == {1, 2}

OrderTotals == {2500}

\* a line at the live price of its product and a line at another price
liveLine == [orderId |-> 7, productId |-> 1, quantity |-> 2, price |-> 12999]

otherLine == [orderId |-> 7, productId |-> 2, quantity |-> 1, price |-> 500]

InsertOrderItemLists ==
  {<<>>, <<liveLine>>, <<otherLine>>, <<liveLine, otherLine>>, <<otherLine, otherLine>>,
   <<otherLine, liveLine, otherLine>>}

(***************************************************************************)
(* The state after construction: empty maps, counters at 1, seeded         *)
(* catalog.                                                                *)
(***************************************************************************)
\* defaultValues of useForm for a user with the given profile
defaultValues(user) ==
  [firstName |-> user.firstName, lastName |-> user.lastName, email |-> user.email,
   phone |-> "", address |-> "", city |-> "", state |-> "", zipCode |-> "",
   country |-> "United States", paymentMethod |-> "credit",
   cardNumber |-> "", cardName |-> "", expMonth |-> "", expYear |-> "", cvv |-> ""]

InitStore ==
  /\ cartItems = EmptyMap
  /\ cartItemId = 1
  /\ orders = EmptyMap
  /\ orderItems = EmptyMap
  /\ orderId = 1
  /\ orderItemId = 1
  /\ clock = 0
  /\ calls = <<>>
  /\ last = [op |-> "init"]

\* the server is up and no checkout page is open
Init ==
  /\ InitStore
  /\ location = "/"
  /\ clientCartItems = <<>>
  /\ checkoutStep = "shipping"
  /\ form = defaultValues([firstName |-> "", lastName |-> "", email |-> ""])
  /\ createOrderMutation = [status |-> "idle", request |-> None]
  /\ orderResponse = None
  /\ clearCartMutation = "idle"
  /\ cartQuery = "fresh"

(***************************************************************************)
(* Calls of the store, each run to completion.                             *)
(***************************************************************************)
AddCartItemOf(u, p, q) ==
  LET ins == [userId |-> u, productId |-> p, quantity |-> q]
      r == addCartItem(ins)
  IN  /\ r.cartItemId <= MaxCartItemId + 1
      /\ r.ret.quantity <= MaxQuantity
      /\ cartItems' = r.cartItems
      /\ cartItemId' = r.cartItemId
      /\ last' = [op |-> "addCartItem", arg |-> ins,
                  existing |-> getCartItem(u, p), ret |-> r.ret]
      /\ UNCHANGED <<orders, orderItems, orderId, orderItemId, clock, calls>>
      /\ UNCHANGED clientVars

CallAddCartItem ==
  \E u \in Users, p \in ProductIds, q \in AddQuantities : AddCartItemOf(u, p, q)

UpdateCartItemOf(id, q) ==
  LET r == updateCartItem(id, q)
  IN  /\ cartItems' = r.cartItems
      /\ last' = [op |-> "updateCartItem", id |-> id, quantity |-> q, ret |-> r.ret]
      /\ UNCHANGED <<cartItemId, orders, orderItems, orderId, orderItemId, clock, calls>>
      /\ UNCHANGED clientVars

CallUpdateCartItem ==
  \E id \in 1..(MaxCartItemId + 1), q \in 1..MaxQuantity : UpdateCartItemOf(id, q)

CallRemoveCartItem ==
  \E id \in 1..(MaxCartItemId + 1) :
    /\ cartItems' = removeCartItem(id)
    /\ last' = [op |-> "removeCartItem", id |-> id]
    /\ UNCHANGED <<cartItemId, orders, orderItems, orderId, orderItemId, clock, calls>>
    /\ UNCHANGED clientVars

CallClearCart ==
  \E u \in Users :
    /\ cartItems' = clearCart(u)
    /\ last' = [op |-> "clearCart", userId |-> u,
                userCartItems |-> {id \in DOMAIN cartItems : cartItems[id].userId = u}]
    /\ UNCHANGED <<cartItemId, orders, orderItems, orderId, orderItemId, clock, calls>>
    /\ UNCHANGED clientVars

CreateOrderOf(u, t, now, items) ==
  LET orderData == [userId |-> u, total |-> t, status |-> Some("pending")]
      r == createOrder(orderData, items, now)
  IN  /\ r.orderId <= MaxOrderId + 1
      /\ r.orderItemId <= MaxOrderItemId + 1
      /\ orders' = r.orders
      /\ orderItems' = r.orderItems
      /\ orderId' = r.orderId
      /\ orderItemId' = r.orderItemId
      /\ clock' = now
      /\ last' = [op |-> "createOrder", orderData |-> orderData, items |-> items,
                  ret |-> r.ret]
      /\ UNCHANGED <<cartItems, cartItemId, calls>>
      /\ UNCHANGED clientVars

CallCreateOrder ==
  \E u \in Users, t \in OrderTotals, now \in clock..Min(clock + 1, MaxClock),
     items \in InsertOrderItemLists :
    CreateOrderOf(u, t, now, items)

(***************************************************************************)
(* Calls of the catalog.                                                   *)
(***************************************************************************)
CategoryOptions == {None, Some(0), Some(3), Some(9)}

FeaturedOptions == {None, Some(FALSE), Some(TRUE)}

SearchOptions ==
  {None, Some(<<>>), Some(<<"S","M","A","R","T">>), Some(<<"S","e","t">>),
   Some(<<"z","z">>)}

SortOptions ==
  {None, Some(""), Some("price-asc"), Some("price-desc"), Some("newest"),
   Some("rating"), Some("name")}

\* GET /api/products hands over offset = (page - 1) * limit of the integers
\* in its query: page 1, 2 and 3 of 12, and page -1 of 12
PageOptions ==
  {[offset |-> None, limit |-> None], [offset |-> Some(0), limit |-> None],
   [offset |-> Some(0), limit |-> Some(12)], [offset |-> Some(12), limit |-> Some(12)],
   [offset |-> Some(24), limit |-> Some(12)], [offset |-> Some(-24), limit |-> Some(12)]}

\* every filter, unsorted and unpaged
FilterOptions ==
  {[categoryId |-> c, featured |-> f, search |-> s, sort |-> None,
    offset |-> None, limit |-> None] :
     c \in CategoryOptions, f \in FeaturedOptions, s \in SearchOptions}

\* every sort key and page, over some filters
ProductOptions ==
  FilterOptions \cup
  {[categoryId |-> c, featured |-> f, search |-> None, sort |-> o,
    offset |-> pg.offset, limit |-> pg.limit] :
     c \in {None, Some(3)}, f \in {None, Some(TRUE)},
     o \in SortOptions, pg \in PageOptions}

\* the ids of a sequence of products
Ids(s) == [i \in 1..Len(s) |-> s[i].id]

CallGetProducts ==
  \E options \in ProductOptions :
    /\ last' = [op |-> "getProducts", options |-> options,
                ret |-> Ids(getProducts(options))]
    /\ UNCHANGED storeVars
    /\ UNCHANGED clientVars

CallGetProductCount ==
  \E options \in FilterOptions :
    /\ last' = [op |-> "getProductCount", options |-> options,
                ret |-> getProductCount(options)]
    /\ UNCHANGED storeVars
    /\ UNCHANGED clientVars

NextCatalog ==
  \/ CallGetProducts
  \/ CallGetProductCount

\* the catalog queries, asked with any options
SpecCatalog == Init /\ [][NextCatalog]_vars

NextCart ==
  \/ CallAddCartItem
  \/ CallUpdateCartItem
  \/ CallRemoveCartItem
  \/ CallClearCart

\* the cart methods, called in any order by any user
SpecCart == Init /\ [][NextCart]_vars

\* reads of the store, which leave it as it is
CallGetCartItems ==
  \E u \in Users :
    /\ last' = [op |-> "getCartItems", userId |-> u, ret |-> getCartItems(u)]
    /\ UNCHANGED storeVars
    /\ UNCHANGED clientVars

CallGetOrders ==
  \E u \in Users :
    /\ last' = [op |-> "getOrders", userId |-> u, ret |-> getOrders(u)]
    /\ UNCHANGED storeVars
    /\ UNCHANGED clientVars

CallGetOrder ==
  \E id \in 1..(MaxOrderId + 1) :
    /\ last' = [op |-> "getOrder", id |-> id, ret |-> getOrder(id)]
    /\ UNCHANGED storeVars
    /\ UNCHANGED clientVars

NextOrders ==
  \/ CallCreateOrder
  \/ CallGetOrders

\* createOrder, called any number of times by any user, and getOrders
SpecOrders == Init /\ [][NextOrders]_vars

\* the point lookups, by keys that are present and keys that are not
CallGetProduct ==
  \E id \in {0, 1, Len(productData), Len(productData) + 1} :
    /\ last' = [op |-> "getProduct", id |-> id, ret |-> getProduct(id)]
    /\ UNCHANGED storeVars
    /\ UNCHANGED clientVars

CallGetCartItem ==
  \E u \in Users, p \in ProductIds :
    /\ last' = [op |-> "getCartItem", userId |-> u, productId |-> p,
                ret |-> getCartItem(u, p)]
    /\ UNCHANGED storeVars
    /\ UNCHANGED clientVars

\* the calls of two users who shop for one product and order it
StoreAddCartItem == \E u \in Users : AddCartItemOf(u, 1, 1)

StoreUpdateCartItem == \E id \in 1..MaxCartItemId : UpdateCartItemOf(id, 2)

StoreCreateOrder ==
  \E u \in Users, items \in {<<liveLine>>, <<liveLine, otherLine>>} :
    CreateOrderOf(u, 2500, clock, items)

NextStore ==
  \/ StoreAddCartItem
  \/ StoreUpdateCartItem
  \/ CallRemoveCartItem
  \/ CallClearCart
  \/ StoreCreateOrder
  \/ CallGetCartItems
  \/ CallGetOrders
  \/ CallGetOrder
  \/ CallGetProduct
  \/ CallGetCartItem

\* the cart methods, createOrder and the reads, called in any order
SpecStore == Init /\ [][NextStore]_vars

(***************************************************************************)
(* Concurrent calls of the store.  An async method runs without            *)
(* interruption from its call to its first await and from one await to the *)
(* next; other calls run in between.  calls holds every call with the      *)
(* locals it keeps across its await and with its result.                   *)
(***************************************************************************)
MaxCalls == 3

\* addCartItem that looks the line item up again when it writes
addCartItemLookingAgain(insertCartItem, existingItem) == addCartItem(insertCartItem)

\* addCartItem from the await of getCartItem on; existingItem is what the
\* lookup found when the method was called
addCartItemAfterAwait(insertCartItem, existingItem) ==
  IF existingItem # None
  THEN LET updatedItem == [existingItem[1] EXCEPT
                             !.quantity = @ + insertCartItem.quantity]
       IN  [cartItems  |-> MapSet(cartItems, updatedItem.id, updatedItem),
            cartItemId |-> cartItemId,
            ret        |-> updatedItem]
  ELSE LET cartItem == [id |-> cartItemId, userId |-> insertCartItem.userId,
                        productId |-> insertCartItem.productId,
                        quantity |-> insertCartItem.quantity]
       IN  [cartItems  |-> MapSet(cartItems, cartItemId, cartItem),
            cartItemId |-> cartItemId + 1,
            ret        |-> cartItem]

\* createOrder with an await between the order and its line items
createOrderRunsAwaitingItems(items) == <<<<>>, items>>

\* the line items createOrder writes in each of its runs, the first of which
\* writes the order too: the method has no await, so it has one run
createOrderRuns(items) == <<items>>

\* the loop of createOrder over the given line items of order id
addOrderItems(id, items) ==
  LET newIds == orderItemId..(orderItemId + Len(items) - 1)
      orderItem(k) == [id |-> k, orderId |-> id,
                       productId |-> items[k - orderItemId + 1].productId,
                       quantity |-> items[k - orderItemId + 1].quantity,
                       price |-> items[k - orderItemId + 1].price]
  IN  [orderItems  |-> [k \in (DOMAIN orderItems) \cup newIds |->
                          IF k \in newIds THEN orderItem(k) ELSE orderItems[k]],
       orderItemId |-> orderItemId + Len(items)]

\* addCartItem is called: it looks the line item up and awaits
StartAddCartItem ==
  \E u \in Users :
    LET ins == [userId |-> u, productId |-> 1, quantity |-> 1]
    IN  /\ Len(calls) < MaxCalls
        /\ calls' = Append(calls, [method |-> "addCartItem", insertCartItem |-> ins,
                                   existingItem |-> getCartItem(u, 1),
                                   pc |-> "await", ret |-> None])
        /\ last' = [op |-> "call", call |-> Len(calls) + 1]
        /\ UNCHANGED <<cartItems, cartItemId, orders, orderItems, orderId,
                       orderItemId, clock>>
        /\ UNCHANGED clientVars

\* createOrder is called and runs to its first await, or to its end
StartCreateOrder ==
  \E u \in Users, items \in {<<liveLine>>, <<liveLine, otherLine>>} :
    LET orderData == [userId |-> u, total |-> 2500, status |-> Some("pending")]
        runs == createOrderRuns(items)
        r == createOrder(orderData, Head(runs), clock)
    IN  /\ Len(calls) < MaxCalls
        /\ r.orderId <= MaxOrderId + 1
        /\ orderItemId + Len(items) <= MaxOrderItemId + 1
        /\ orders' = r.orders
        /\ orderItems' = r.orderItems
        /\ orderId' = r.orderId
        /\ orderItemId' = r.orderItemId
        /\ calls' = Append(calls, [method |-> "createOrder", items |-> items,
                                   id |-> r.ret.id, rest |-> Tail(runs),
                                   pc |-> IF Tail(runs) = <<>> THEN "returned"
                                          ELSE "await",
                                   ret |-> Some(r.ret)])
        /\ last' = [op |-> "call", call |-> Len(calls) + 1]
        /\ UNCHANGED <<cartItems, cartItemId, clock>>
        /\ UNCHANGED clientVars

\* getOrder is called: it reads the order and its line items, and awaits the
\* products unless the order is absent
StartGetOrder ==
  \E id \in 1..MaxOrderId :
    /\ Len(calls) < MaxCalls
    /\ calls' = Append(calls, [method |-> "getOrder", id |-> id,
                               pc |-> IF getOrder(id) = None THEN "returned"
                                      ELSE "await",
                               ret |-> getOrder(id)])
    /\ last' = [op |-> "call", call |-> Len(calls) + 1]
    /\ UNCHANGED <<cartItems, cartItemId, orders, orderItems, orderId, orderItemId,
                   clock>>
    /\ UNCHANGED clientVars

\* getOrders is called: it has no await
StartGetOrders ==
  \E u \in Users :
    /\ Len(calls) < MaxCalls
    /\ calls' = Append(calls, [method |-> "getOrders", userId |-> u,
                               pc |-> "returned", ret |-> Some(getOrders(u))])
    /\ last' = [op |-> "call", call |-> Len(calls) + 1]
    /\ UNCHANGED <<cartItems, cartItemId, orders, orderItems, orderId, orderItemId,
                   clock>>
    /\ UNCHANGED clientVars

\* the store and the call after the call ran from its await to the next
resumed(call) ==
  IF call.method = "addCartItem"
  THEN LET r == addCartItemAfterAwait(call.insertCartItem, call.existingItem)
       IN  [cartItems |-> r.cartItems, cartItemId |-> r.cartItemId,
            orderItems |-> orderItems, orderItemId |-> orderItemId,
            call |-> [call EXCEPT !.pc = "returned", !.ret = Some(r.ret)]]
  ELSE IF call.method = "createOrder"
  THEN LET r == addOrderItems(call.id, Head(call.rest))
       IN  [cartItems |-> cartItems, cartItemId |-> cartItemId,
            orderItems |-> r.orderItems, orderItemId |-> r.orderItemId,
            call |-> [call EXCEPT !.rest = Tail(@),
                                  !.pc = IF Tail(call.rest) = <<>> THEN "returned"
                                         ELSE "await"]]
  ELSE [cartItems |-> cartItems, cartItemId |-> cartItemId,
        orderItems |-> orderItems, orderItemId |-> orderItemId,
        call |-> [call EXCEPT !.pc = "returned"]]

\* a call that awaits runs on
Resume ==
  \E i \in 1..Len(calls) :
    LET r == resumed(calls[i])
    IN  /\ calls[i].pc = "await"
        /\ r.cartItemId <= MaxCartItemId + 1
        /\ \A id \in DOMAIN r.cartItems : r.cartItems[id].quantity <= MaxQuantity
        /\ cartItems' = r.cartItems
        /\ cartItemId' = r.cartItemId
        /\ orderItems' = r.orderItems
        /\ orderItemId' = r.orderItemId
        /\ calls' = [calls EXCEPT ![i] = r.call]
        /\ last' = [op |-> "resume", call |-> i]
        /\ UNCHANGED <<orders, orderId, clock>>
        /\ UNCHANGED clientVars

NextAsync ==
  \/ StartAddCartItem
  \/ StartCreateOrder
  \/ StartGetOrder
  \/ StartGetOrders
  \/ Resume

\* calls of the store that overlap at their awaits
SpecAsync == Init /\ [][NextAsync]_vars

(***************************************************************************)
(* The insert schemas of shared/schema.ts.  A JSON value is a record of    *)
(* its type and its content; a request object is a record of optional      *)
(* JSON values.  parse yields None where zod throws a ZodError, and        *)
(* otherwise the object with the schema's keys.                            *)
(***************************************************************************)
Num(n) == [type |-> "number", v |-> n]

Str(s) == [type |-> "string", v |-> s]

isNumber(o) == o # None /\ o[1].type = "number"

isString(o) == o # None /\ o[1].type = "string"

\* insertCartItemSchema: userId and productId are required integers;
\* quantity has a column default, so the schema lets it be absent
parseInsertCartItem(obj) ==
  IF isNumber(obj.userId) /\ isNumber(obj.productId)
       /\ (obj.quantity = None \/ isNumber(obj.quantity))
  THEN Some(obj)
  ELSE None

\* insertOrderSchema: userId is a required integer, total a required decimal
\* string; status has a column default, so the schema lets it be absent
parseInsertOrder(obj) ==
  IF isNumber(obj.userId) /\ isString(obj.total)
       /\ (obj.status = None \/ isString(obj.status))
  THEN Some(obj)
  ELSE None

\* insertOrderItemSchema omits id only: orderId, productId and quantity are
\* required integers, price is a required decimal string
parseInsertOrderItem(obj) ==
  IF isNumber(obj.orderId) /\ isNumber(obj.productId)
       /\ isNumber(obj.quantity) /\ isString(obj.price)
  THEN Some(obj)
  ELSE None

(***************************************************************************)
(* The routes of server/routes.ts.  A request carries the authenticated    *)
(* user (None when req.isAuthenticated() is false) and a body.             *)
(***************************************************************************)
\* POST /api/cart with the spread after the requester's id, so that a userId
\* of the body replaces it
postCartOwnerFromBody(user, body) ==
  IF user = None
  THEN [status |-> 401, cartItems |-> cartItems, cartItemId |-> cartItemId]
  ELSE LET validatedData == parseInsertCartItem(
                              [userId |-> IF body.userId # None THEN body.userId
                                          ELSE Some(Num(user[1])),
                               productId |-> body.productId,
                               quantity |-> body.quantity])
       IN  IF validatedData = None
           THEN [status |-> 400, cartItems |-> cartItems, cartItemId |-> cartItemId]
           ELSE LET r == addCartItem([userId |-> validatedData[1].userId[1].v,
                                      productId |-> validatedData[1].productId[1].v,
                                      quantity |-> validatedData[1].quantity[1].v])
                IN  [status |-> 201, cartItems |-> r.cartItems,
                     cartItemId |-> r.cartItemId]

\* POST /api/cart: the requester's id is written over the userId of the body
postCart(user, body) ==
  IF user = None
  THEN [status |-> 401, cartItems |-> cartItems, cartItemId |-> cartItemId]
  ELSE LET validatedData == parseInsertCartItem(
                              [userId |-> Some(Num(user[1])),
                               productId |-> body.productId,
                               quantity |-> body.quantity])
       IN  IF validatedData = None
           THEN [status |-> 400, cartItems |-> cartItems, cartItemId |-> cartItemId]
           ELSE LET r == addCartItem([userId |-> validatedData[1].userId[1].v,
                                      productId |-> validatedData[1].productId[1].v,
                                      quantity |-> validatedData[1].quantity[1].v])
                IN  [status |-> 201, cartItems |-> r.cartItems,
                     cartItemId |-> r.cartItemId]

\* PUT /api/cart/:id
putCart(user, id, body) ==
  IF user = None THEN [status |-> 401, cartItems |-> cartItems]
  ELSE IF ~isNumber(body.quantity) \/ body.quantity[1].v < 1
  THEN [status |-> 400, cartItems |-> cartItems]
  ELSE LET r == updateCartItem(id, body.quantity[1].v)
       IN  IF r.ret = None THEN [status |-> 404, cartItems |-> cartItems]
           ELSE [status |-> 200, cartItems |-> r.cartItems]

\* DELETE /api/cart/:id
deleteCartItem(user, id) ==
  IF user = None THEN [status |-> 401, cartItems |-> cartItems]
  ELSE [status |-> 204, cartItems |-> removeCartItem(id)]

\* DELETE /api/cart
deleteCart(user) ==
  IF user = None THEN [status |-> 401, cartItems |-> cartItems]
  ELSE [status |-> 204, cartItems |-> clearCart(user[1])]

\* GET /api/orders/:id without the ownership check
getApiOrderOfAnyone(user, id) ==
  IF user = None THEN [status |-> 401, body |-> None]
  ELSE LET order == getOrder(id)
       IN  IF order = None THEN [status |-> 404, body |-> None]
           ELSE [status |-> 200, body |-> order]

\* GET /api/orders/:id; body is the order the response carries, if any
getApiOrder(user, id) ==
  IF user = None THEN [status |-> 401, body |-> None]
  ELSE LET order == getOrder(id)
       IN  IF order = None THEN [status |-> 404, body |-> None]
           ELSE IF order[1].userId # user[1] THEN [status |-> 403, body |-> None]
           ELSE [status |-> 200, body |-> order]

\* the InsertOrderItem a validated line is
validatedItem(obj) ==
  [orderId |-> obj.orderId[1].v, productId |-> obj.productId[1].v,
   quantity |-> obj.quantity[1].v, price |-> obj.price[1].v]

\* a response sent before any write; exit names the place that sent it
unchangedStore(status, exit) ==
  [status |-> status, exit |-> exit, orders |-> orders, orderItems |-> orderItems,
   orderId |-> orderId, orderItemId |-> orderItemId, cartItems |-> cartItems]

\* POST /api/orders that writes the order before it validates the lines: a
\* line that fails leaves the order and the lines before it behind
postOrdersWriteFirst(user, body, now) ==
  IF user = None THEN unchangedStore(401, "not authenticated")
  ELSE IF body.items.kind # "array" \/ body.items.elems = <<>>
  THEN unchangedStore(400, "no items")
  ELSE LET validatedOrderData == parseInsertOrder(
                                   [userId |-> Some(Num(user[1])),
                                    total |-> body.orderData.total,
                                    status |-> body.orderData.status])
           elems == body.items.elems
           bad == {i \in 1..Len(elems) : parseInsertOrderItem(elems[i]) = None}
           firstBad == IF bad = {} THEN Len(elems) + 1
                       ELSE CHOOSE i \in bad : \A j \in bad : i <= j
       IN  IF validatedOrderData = None THEN unchangedStore(400, "order schema")
           ELSE LET r == createOrder(
                           [userId |-> user[1],
                            total |-> validatedOrderData[1].total[1].v,
                            status |-> IF validatedOrderData[1].status = None
                                       THEN None
                                       ELSE Some(validatedOrderData[1].status[1].v)],
                           [i \in 1..(firstBad - 1) |-> validatedItem(elems[i])],
                           now)
                IN  [status |-> IF bad = {} THEN 201 ELSE 400,
                     exit |-> IF bad = {} THEN "created" ELSE "item schema",
                     orders |-> r.orders, orderItems |-> r.orderItems,
                     orderId |-> r.orderId, orderItemId |-> r.orderItemId,
                     cartItems |-> IF bad = {} THEN clearCart(user[1]) ELSE cartItems]

\* POST /api/orders; now is the value of new Date() in createOrder
postOrders(user, body, now) ==
  IF user = None THEN unchangedStore(401, "not authenticated")
  ELSE IF body.items.kind # "array" \/ body.items.elems = <<>>
  THEN unchangedStore(400, "no items")
  ELSE LET validatedOrderData == parseInsertOrder(
                                   [userId |-> Some(Num(user[1])),
                                    total |-> body.orderData.total,
                                    status |-> body.orderData.status])
           elems == body.items.elems
       IN  IF validatedOrderData = None THEN unchangedStore(400, "order schema")
           ELSE IF \E i \in 1..Len(elems) : parseInsertOrderItem(elems[i]) = None
           THEN unchangedStore(400, "item schema")
           ELSE LET r == createOrder(
                           [userId |-> user[1],
                            total |-> validatedOrderData[1].total[1].v,
                            status |-> IF validatedOrderData[1].status = None
                                       THEN None
                                       ELSE Some(validatedOrderData[1].status[1].v)],
                           [i \in 1..Len(elems) |-> validatedItem(elems[i])],
                           now)
                IN  [status |-> 201, exit |-> "created", orders |-> r.orders,
                     orderItems |-> r.orderItems, orderId |-> r.orderId,
                     orderItemId |-> r.orderItemId,
                     cartItems |-> clearCart(user[1])]

(***************************************************************************)
(* Requests.                                                               *)
(***************************************************************************)
Requesters == {None} \cup {Some(u) : u \in Users}

CartBodies ==
  {[userId |-> None, productId |-> Some(Num(1)), quantity |-> Some(Num(1))],
   [userId |-> Some(Num(2)), productId |-> Some(Num(1)), quantity |-> Some(Num(1))],
   [userId |-> None, productId |-> None, quantity |-> Some(Num(1))],
   [userId |-> None, productId |-> Some(Num(1)), quantity |-> Some(Str(1))]}

\* the line the checkout page builds from a cart item: productId, quantity
\* and price, nothing else
checkoutLine(productId, quantity) ==
  [orderId |-> None, productId |-> Some(Num(productId)),
   quantity |-> Some(Num(quantity)), price |-> Some(Str(products[productId].price))]

\* a line that passes insertOrderItemSchema
fullLine ==
  [orderId |-> Some(Num(7)), productId |-> Some(Num(1)),
   quantity |-> Some(Num(2)), price |-> Some(Str(500))]

\* lines that fail it: a quantity that is a string, a missing price
badQuantityLine == [fullLine EXCEPT !.quantity = Some(Str(2))]

noPriceLine == [fullLine EXCEPT !.price = None]

validOrderData == [userId |-> None, total |-> Some(Str(2500)), status |-> None]

array(elems) == [kind |-> "array", elems |-> elems]

OrderBodies ==
  {[orderData |-> validOrderData, items |-> [kind |-> "undefined", elems |-> <<>>]],
   [orderData |-> validOrderData, items |-> [kind |-> "object", elems |-> <<>>]],
   [orderData |-> validOrderData, items |-> array(<<>>)],
   [orderData |-> [validOrderData EXCEPT !.total = Some(Num(25))],
    items |-> array(<<fullLine>>)],
   [orderData |-> [validOrderData EXCEPT !.total = None], items |-> array(<<fullLine>>)],
   [orderData |-> validOrderData, items |-> array(<<fullLine, fullLine>>)],
   [orderData |-> [validOrderData EXCEPT !.userId = Some(Num(2)),
                                         !.status = Some(Str("pending"))],
    items |-> array(<<fullLine, fullLine>>)],
   [orderData |-> validOrderData, items |-> array(<<badQuantityLine>>)],
   [orderData |-> validOrderData, items |-> array(<<fullLine, noPriceLine>>)],
   [orderData |-> validOrderData, items |-> array(<<checkoutLine(1, 1)>>)],
   [orderData |-> [validOrderData EXCEPT !.status = Some(Str("pending"))],
    items |-> array(<<checkoutLine(2, 1), checkoutLine(1, 2)>>)]}

\* one POST /api/cart request
PostApiCartOf(user, body) ==
  LET r == postCart(user, body)
  IN  /\ r.cartItemId <= MaxCartItemId + 1
      /\ \A id \in DOMAIN r.cartItems :
           r.cartItems[id].quantity \in (-MaxQuantity)..MaxQuantity
      /\ cartItems' = r.cartItems
      /\ cartItemId' = r.cartItemId
      /\ last' = [op |-> "POST /api/cart", user |-> user, bodyUserId |-> body.userId,
                  status |-> r.status]
      /\ UNCHANGED <<orders, orderItems, orderId, orderItemId, clock, calls>>
      /\ UNCHANGED clientVars

PostApiCart == \E user \in Requesters, body \in CartBodies : PostApiCartOf(user, body)

\* the bodies of the cart requests: quantities above, at and below zero, a
\* quantity that is a string, a missing product, a product id past the last
\* product of the catalog
CartRouteBodies ==
  {[userId |-> None, productId |-> Some(Num(p)), quantity |-> Some(q)] :
     p \in ProductIds, q \in {Num(1), Num(0), Num(-1), Str(1)}}
    \cup {[userId |-> None, productId |-> None, quantity |-> Some(Num(1))],
          [userId |-> None, productId |-> Some(Num(Len(productData) + 1)),
           quantity |-> Some(Num(1))]}

QuantityBodies ==
  {[quantity |-> q] : q \in {None, Some(Num(0)), Some(Num(1)), Some(Num(2)), Some(Str(2))}}

CartItemIds == 1..(MaxCartItemId + 1)

PostCart == \E user \in Requesters, body \in CartRouteBodies : PostApiCartOf(user, body)

\* one PUT /api/cart/:id request
PutApiCart ==
  \E user \in Requesters, id \in CartItemIds, body \in QuantityBodies :
    LET r == putCart(user, id, body)
    IN  /\ \A k \in DOMAIN r.cartItems : r.cartItems[k].quantity <= MaxQuantity
        /\ cartItems' = r.cartItems
        /\ last' = [op |-> "PUT /api/cart/:id", user |-> user, id |-> id,
                    status |-> r.status]
        /\ UNCHANGED <<cartItemId, orders, orderItems, orderId, orderItemId, clock, calls>>
        /\ UNCHANGED clientVars

\* one DELETE /api/cart/:id request
DeleteApiCartItem ==
  \E user \in Requesters, id \in CartItemIds :
    LET r == deleteCartItem(user, id)
    IN  /\ cartItems' = r.cartItems
        /\ last' = [op |-> "DELETE /api/cart/:id", user |-> user, id |-> id,
                    status |-> r.status]
        /\ UNCHANGED <<cartItemId, orders, orderItems, orderId, orderItemId, clock, calls>>
        /\ UNCHANGED clientVars

\* one DELETE /api/cart request
DeleteApiCart ==
  \E user \in Requesters :
    LET r == deleteCart(user)
    IN  /\ cartItems' = r.cartItems
        /\ last' = [op |-> "DELETE /api/cart", user |-> user, status |-> r.status]
        /\ UNCHANGED <<cartItemId, orders, orderItems, orderId, orderItemId, clock, calls>>
        /\ UNCHANGED clientVars

NextCartRoutes ==
  \/ PostCart
  \/ PutApiCart
  \/ DeleteApiCartItem
  \/ DeleteApiCart

\* users change their carts through the cart routes
SpecCartRoutes == Init /\ [][NextCartRoutes]_vars

\* one POST /api/orders request
PostApiOrdersOf(user, body, now) ==
  LET r == postOrders(user, body, now)
  IN  /\ r.orderId <= MaxOrderId + 1
      /\ r.orderItemId <= MaxOrderItemId + 1
      /\ cartItems' = r.cartItems
      /\ orders' = r.orders
      /\ orderItems' = r.orderItems
      /\ orderId' = r.orderId
      /\ orderItemId' = r.orderItemId
      /\ clock' = IF r.status = 201 THEN now ELSE clock
      /\ last' = [op |-> "POST /api/orders", user |-> user,
                  bodyUserId |-> body.orderData.userId, status |-> r.status,
                  exit |-> r.exit]
      /\ UNCHANGED <<cartItemId, calls>>
      /\ UNCHANGED clientVars

\* the requests sent: every body by a user, one body by a stranger
OrderRequests ==
  {<<Some(u), body>> : u \in Users, body \in OrderBodies}
    \cup {<<None, [orderData |-> validOrderData, items |-> array(<<fullLine, fullLine>>)]>>}

PostApiOrders ==
  \E req \in OrderRequests, now \in clock..Min(clock + 1, MaxClock) :
    PostApiOrdersOf(req[1], req[2], now)

\* one GET /api/orders/:id request
GetApiOrder ==
  \E user \in Requesters, id \in 1..(MaxOrderId + 1) :
    LET r == getApiOrder(user, id)
    IN  /\ last' = [op |-> "GET /api/orders/:id", user |-> user, id |-> id,
                    status |-> r.status, body |-> r.body]
        /\ UNCHANGED storeVars
        /\ UNCHANGED clientVars

NextOrderRoutes ==
  \/ PostApiCart
  \/ PostApiOrders
  \/ GetApiOrder

\* users fill their carts and place orders through the routes
SpecOrderRoutes == Init /\ [][NextOrderRoutes]_vars

(***************************************************************************)
(* JavaScript numbers.  A number of the order summary is a non-negative    *)
(* IEEE 754 double: the record [m, e] of its 53-bit significand m and its  *)
(* exponent e, of value m * 2^e, or zero.  A significand is a natural      *)
(* number written in base 2^13, least significant limb first, without      *)
(* leading zero limbs; every product and sum of limbs stays below 2^31.    *)
(***************************************************************************)
LimbBits == 13

Base == 8192

\* 2^n for n < 31
RECURSIVE pow2(_)
pow2(n) == IF n = 0 THEN 1 ELSE 2 * pow2(n - 1)

\* the limbs of the number whose limb i holds any natural s[i], plus c
RECURSIVE carry(_, _)
carry(s, c) ==
  IF s = <<>>
  THEN IF c = 0 THEN <<>> ELSE <<c % Base>> \o carry(<<>>, c \div Base)
  ELSE <<(Head(s) + c) % Base>> \o carry(Tail(s), (Head(s) + c) \div Base)

RECURSIVE trim(_)
trim(s) ==
  IF s # <<>> /\ s[Len(s)] = 0 THEN trim(SubSeq(s, 1, Len(s) - 1)) ELSE s

limb(a, i) == IF i <= Len(a) THEN a[i] ELSE 0

bigOf(n) == carry(<<n % Base, n \div Base>>, 0)

bigAdd(a, b) ==
  carry([i \in 1..Max(Len(a), Len(b)) |-> limb(a, i) + limb(b, i)], 0)

\* a * k for a natural k below 2^17
bigMulSmall(a, k) == trim(carry([i \in 1..Len(a) |-> a[i] * k], 0))

\* a * b for numbers of at most eight limbs
bigMul(a, b) ==
  LET RECURSIVE column(_, _)
      column(i, j) == IF j = 0 THEN 0
                      ELSE column(i, j - 1)
                             + (IF i - j + 1 \in 1..Len(b) THEN a[j] * b[i - j + 1] ELSE 0)
  IN  IF a = <<>> \/ b = <<>> THEN <<>>
      ELSE trim(carry([i \in 1..(Len(a) + Len(b) - 1) |-> column(i, Len(a))], 0))

\* the quotient and the remainder of a by a natural d below 2^17
RECURSIVE bigDivSmall(_, _)
bigDivSmall(a, d) ==
  IF a = <<>> THEN [q |-> <<>>, r |-> 0]
  ELSE LET high == bigDivSmall(Tail(a), d)
           n == high.r * Base + Head(a)
       IN  [q |-> trim(<<n \div d>> \o high.q), r |-> n % d]

\* -1, 0 or 1 as a is below, equal to or above b
RECURSIVE bigCmp(_, _)
bigCmp(a, b) ==
  IF Len(a) # Len(b) THEN (IF Len(a) < Len(b) THEN -1 ELSE 1)
  ELSE IF a = <<>> THEN 0
  ELSE IF a[Len(a)] # b[Len(b)] THEN (IF a[Len(a)] < b[Len(b)] THEN -1 ELSE 1)
  ELSE bigCmp(SubSeq(a, 1, Len(a) - 1), SubSeq(b, 1, Len(b) - 1))

\* the number of bits of a natural below 2^31, and of a number
RECURSIVE bitsOf(_)
bitsOf(n) == IF n = 0 THEN 0 ELSE 1 + bitsOf(n \div 2)

bitLength(a) ==
  IF a = <<>> THEN 0 ELSE LimbBits * (Len(a) - 1) + bitsOf(a[Len(a)])

\* a * 2^n
shiftLeft(a, n) ==
  IF a = <<>> THEN <<>>
  ELSE [i \in 1..(n \div LimbBits) |-> 0] \o bigMulSmall(a, pow2(n % LimbBits))

\* floor(a / 2^n)
shiftRight(a, n) ==
  IF n \div LimbBits >= Len(a) THEN <<>>
  ELSE bigDivSmall(SubSeq(a, n \div LimbBits + 1, Len(a)), pow2(n % LimbBits)).q

\* bit i of a, bit 0 being the lowest
bit(a, i) == (limb(a, i \div LimbBits + 1) \div pow2(i % LimbBits)) % 2

\* some bit of a below bit i is set
anyBitBelow(a, i) ==
  \/ \E j \in 1..Min(i \div LimbBits, Len(a)) : a[j] # 0
  \/ limb(a, i \div LimbBits + 1) % pow2(i % LimbBits) # 0

zero == [m |-> <<>>, e |-> 0]

\* the double nearest to (n + f) * 2^e, where 0 <= f < 1 and sticky tells
\* whether f > 0: round to nearest, ties to even
roundToDouble(n, e, sticky) ==
  LET len == bitLength(n)
      k == len - 53
      q == shiftRight(n, k)
      half == bit(n, k - 1) = 1
      rest == anyBitBelow(n, k - 1) \/ sticky
      up == half /\ (rest \/ bit(q, 0) = 1)
      m == IF up THEN bigAdd(q, <<1>>) ELSE q
  IN  IF n = <<>> THEN zero
      ELSE IF k <= 0 THEN [m |-> shiftLeft(n, -k), e |-> e + k]
      ELSE IF bitLength(m) = 54 THEN [m |-> shiftRight(m, 1), e |-> e + k + 1]
      ELSE [m |-> m, e |-> e + k]

\* Number(s) of the decimal string that writes n / d, for d below 2^17, and
\* the value of the numeric literal that writes it
Number(n, d) ==
  LET k == 75 + bitsOf(d) - bitsOf(n)
      div == bigDivSmall(shiftLeft(bigOf(n), k), d)
  IN  IF n = 0 THEN zero ELSE roundToDouble(div.q, -k, div.r # 0)

\* x * y of two doubles
times(x, y) == roundToDouble(bigMul(x.m, y.m), x.e + y.e, FALSE)

\* x + y of two doubles
plus(x, y) ==
  LET e == Min(x.e, y.e)
  IN  IF x = zero THEN y
      ELSE IF y = zero THEN x
      ELSE roundToDouble(bigAdd(shiftLeft(x.m, x.e - e), shiftLeft(y.m, y.e - e)),
                         e, FALSE)

(***************************************************************************)
(* The checkout page (client/src/pages/checkout-page.tsx).  A field value  *)
(* is a string; "a@b.co" stands for the strings z.string().email()         *)
(* accepts and "x" for the other non-empty strings.                        *)
(***************************************************************************)
isEmail(s) == s = "a@b.co"

\* checkoutFormSchema, which zodResolver applies before onSubmit runs: the
\* shipping fields are required, the card fields are optional strings
checkoutFormSchema(values) ==
  /\ values.firstName # ""
  /\ values.lastName # ""
  /\ isEmail(values.email)
  /\ values.phone # ""
  /\ values.address # ""
  /\ values.city # ""
  /\ values.state # ""
  /\ values.zipCode # ""
  /\ values.country # ""
  /\ values.paymentMethod \in {"credit", "paypal", "bank"}

\* validatePaymentFields without the test of the last card field
validatePaymentFieldsNoCvv(values) ==
  IF values.paymentMethod = "credit"
  THEN /\ values.cardNumber # ""
       /\ values.cardName # ""
       /\ values.expMonth # ""
       /\ values.expYear # ""
  ELSE TRUE

\* validatePaymentFields: !value holds of the empty string only
validatePaymentFields(values) ==
  IF values.paymentMethod = "credit"
  THEN /\ values.cardNumber # ""
       /\ values.cardName # ""
       /\ values.expMonth # ""
       /\ values.expYear # ""
       /\ values.cvv # ""
  ELSE TRUE

\* the order summary: Number(item.product.price) * item.quantity summed, in
\* cents
subtotal(items) ==
  LET RECURSIVE sum(_)
      sum(k) == IF k = 0 THEN 0
                ELSE sum(k - 1) + items[k].product.price * items[k].quantity
  IN  sum(Len(items))

\* subtotal + shippingCost + tax in ten-thousandths: 9.99 of shipping when
\* the subtotal is positive and 8% of tax, in exact decimal arithmetic (the
\* rounding of the JavaScript doubles is not represented)
orderTotal(items) ==
  LET shippingCost == IF subtotal(items) > 0 THEN 99900 ELSE 0
      tax == subtotal(items) * 8
  IN  subtotal(items) * 100 + shippingCost + tax

\* the order summary with its tax computed on subtotal + shippingCost
orderSummaryTaxOnAll(items) ==
  LET RECURSIVE reduce(_)
      reduce(k) ==
        IF k = 0 THEN zero
        ELSE plus(reduce(k - 1), times(Number(items[k].product.price, 100),
                                       Number(items[k].quantity, 1)))
      sub == reduce(Len(items))
      shippingCost == IF sub # zero THEN Number(999, 100) ELSE zero
      taxRate == Number(8, 100)
      tax == times(plus(sub, shippingCost), taxRate)
  IN  [subtotal |-> sub, shippingCost |-> shippingCost, tax |-> tax,
       total |-> plus(plus(sub, shippingCost), tax)]

\* the order summary of CheckoutPage, and of CartSidebar, as the JavaScript
\* numbers the code computes; a price is the decimal string of its cents
\* (subtotal > 0 is subtotal # 0 for the carts of quantities above 0)
orderSummary(items) ==
  LET RECURSIVE reduce(_)
      reduce(k) ==
        IF k = 0 THEN zero
        ELSE plus(reduce(k - 1), times(Number(items[k].product.price, 100),
                                       Number(items[k].quantity, 1)))
      sub == reduce(Len(items))
      shippingCost == IF sub # zero THEN Number(999, 100) ELSE zero
      taxRate == Number(8, 100)
      tax == times(sub, taxRate)
  IN  [subtotal |-> sub, shippingCost |-> shippingCost, tax |-> tax,
       total |-> plus(plus(sub, shippingCost), tax)]

\* the body mutationFn posts to /api/orders
orderRequestBody(userId, items) ==
  [orderData |-> [userId |-> Some(Num(userId)),
                  total |-> Some(Str(orderTotal(items))),
                  status |-> Some(Str("pending"))],
   items |-> array([i \in 1..Len(items) |->
                      [orderId |-> None,
                       productId |-> Some(Num(items[i].productId)),
                       quantity |-> Some(Num(items[i].quantity)),
                       price |-> Some(Str(items[i].product.price))]])]

\* the guard, looking at the cart on the first step only
redirectsAtShipping(items, step) == items = <<>> /\ step = "shipping"

\* the guard at the top of CheckoutPage: with an empty cart and a step other
\* than confirmation the page calls navigate("/") and renders nothing
redirects(items, step) == items = <<>> /\ step # "confirmation"

\* the route after a render of the page with the given cart and step
rendered(loc, items, step) ==
  IF loc = "/checkout" /\ redirects(items, step) THEN "/" ELSE loc

\* the form is on the screen
FormShown ==
  /\ location = "/checkout"
  /\ ~redirects(clientCartItems, checkoutStep)
  /\ checkoutStep # "confirmation"

(***************************************************************************)
(* What the user and the network do to an open checkout page.              *)
(***************************************************************************)
\* the user whose page it is
CheckoutUser == 1

UserProfiles ==
  {[firstName |-> "", lastName |-> "", email |-> "a@b.co"],
   [firstName |-> "x", lastName |-> "x", email |-> "a@b.co"]}

\* a cart item of useCart(): the line joined with its product
clientLine(id, productId, quantity) ==
  [id |-> id, userId |-> CheckoutUser, productId |-> productId,
   quantity |-> quantity, product |-> products[productId]]

ClientCarts ==
  {<<>>, <<clientLine(1, 18, 2)>>, <<clientLine(1, 1, 1), clientLine(2, 18, 1)>>}

filledShipping ==
  [firstName |-> "x", lastName |-> "x", email |-> "a@b.co", phone |-> "x",
   address |-> "x", city |-> "x", state |-> "x", zipCode |-> "x", country |-> "x"]

ShippingInputs ==
  {filledShipping,
   [filledShipping EXCEPT !.email = "x"],
   [filledShipping EXCEPT !.email = ""],
   [filledShipping EXCEPT !.zipCode = ""],
   [filledShipping EXCEPT !.firstName = "", !.country = ""]}

filledCard ==
  [cardNumber |-> "x", cardName |-> "x", expMonth |-> "x", expYear |-> "x", cvv |-> "x"]

\* the card fields all filled, all but one filled, and all empty
CardInputs ==
  {filledCard, [f \in DOMAIN filledCard |-> ""]}
    \cup {[filledCard EXCEPT ![f] = ""] : f \in DOMAIN filledCard}

PaymentInputs ==
  {[f \in {"paymentMethod"} \cup DOMAIN card |->
      IF f = "paymentMethod" THEN method ELSE card[f]] :
     method \in {"credit", "paypal", "bank"}, card \in CardInputs}

\* the cart items of the store that the query fetched as the given cart
storedLines(items) ==
  [id \in {items[i].id : i \in 1..Len(items)} |->
     LET item == items[CHOOSE i \in 1..Len(items) : items[i].id = id]
     IN  [id |-> item.id, userId |-> item.userId, productId |-> item.productId,
          quantity |-> item.quantity]]

\* the carts whose summary is computed: every product in a line of its own,
\* and two-line carts
SummaryQuantities == {1, 2, 3}

SummaryCarts ==
  {<<>>}
    \cup {<<clientLine(1, p, q)>> : p \in DOMAIN products, q \in SummaryQuantities}
    \cup {<<clientLine(1, p, 1), clientLine(2, r, 1)>> :
            p \in {1, 9, 18}, r \in DOMAIN products}

\* a render of the summary with some cart
RenderSummary ==
  \E items \in SummaryCarts :
    /\ clientCartItems' = items
    /\ last' = [op |-> "summary", summary |-> orderSummary(items)]
    /\ UNCHANGED <<location, checkoutStep, form, createOrderMutation>>
    /\ UNCHANGED netVars
    /\ UNCHANGED storeVars

\* the order summary over the carts
SpecSummary == Init /\ [][RenderSummary]_vars

\* the page is opened by a user with some profile and some cart, which the
\* cart query fetched from the store
InitCheckout ==
  /\ \E user \in UserProfiles : form = defaultValues(user)
  /\ clientCartItems \in ClientCarts
  /\ cartItems = storedLines(clientCartItems)
  /\ cartItemId = Len(clientCartItems) + 1
  /\ orders = EmptyMap
  /\ orderItems = EmptyMap
  /\ orderId = 1
  /\ orderItemId = 1
  /\ clock = 0
  /\ calls = <<>>
  /\ last = [op |-> "init"]
  /\ checkoutStep = "shipping"
  /\ location = rendered("/checkout", clientCartItems, "shipping")
  /\ createOrderMutation = [status |-> "idle", request |-> None]
  /\ orderResponse = None
  /\ clearCartMutation = "idle"
  /\ cartQuery = "fresh"

\* the user edits the fields of the shipping step
EditShipping ==
  \E s \in ShippingInputs :
    /\ FormShown
    /\ checkoutStep = "shipping"
    /\ form' = [f \in DOMAIN form |-> IF f \in DOMAIN s THEN s[f] ELSE form[f]]
    /\ last' = [op |-> "edit", step |-> checkoutStep]
    /\ UNCHANGED <<location, clientCartItems, checkoutStep, createOrderMutation>>
    /\ UNCHANGED netVars
    /\ UNCHANGED storeVars

\* the user edits the fields of the payment step
EditPayment ==
  \E s \in PaymentInputs :
    /\ FormShown
    /\ checkoutStep = "payment"
    /\ form' = [f \in DOMAIN form |-> IF f \in DOMAIN s THEN s[f] ELSE form[f]]
    /\ last' = [op |-> "edit", step |-> checkoutStep]
    /\ UNCHANGED <<location, clientCartItems, checkoutStep, createOrderMutation>>
    /\ UNCHANGED netVars
    /\ UNCHANGED storeVars

\* onSubmit: the step and the mutation after it ran on the form's values
onSubmit(values) ==
  IF checkoutStep = "shipping"
  THEN [checkoutStep |-> "payment", createOrderMutation |-> createOrderMutation]
  ELSE IF checkoutStep = "payment"
  THEN IF ~validatePaymentFields(values)
       THEN [checkoutStep |-> checkoutStep, createOrderMutation |-> createOrderMutation]
       ELSE [checkoutStep |-> "review", createOrderMutation |-> createOrderMutation]
  ELSE IF checkoutStep = "review"
  THEN [checkoutStep |-> checkoutStep,
        createOrderMutation |->
          [status |-> "pending",
           request |-> Some(orderRequestBody(CheckoutUser, clientCartItems))]]
  ELSE [checkoutStep |-> checkoutStep, createOrderMutation |-> createOrderMutation]

\* the user presses the submit button, which is disabled while the mutation
\* is pending: form.handleSubmit runs onSubmit when the schema accepts the
\* values and shows the field errors otherwise
Submit ==
  /\ FormShown
  /\ createOrderMutation.status # "pending"
  /\ LET valid == checkoutFormSchema(form)
         r == onSubmit(form)
     IN  /\ checkoutStep' = IF valid THEN r.checkoutStep ELSE checkoutStep
         /\ createOrderMutation' =
              IF valid THEN r.createOrderMutation ELSE createOrderMutation
         /\ last' = [op |-> "submit", step |-> checkoutStep, valid |-> valid]
  /\ UNCHANGED <<location, clientCartItems, form>>
  /\ UNCHANGED netVars
  /\ UNCHANGED storeVars

\* a handler that goes back to the first step from every later step
handleBackToShipping ==
  IF checkoutStep \in {"payment", "review"} THEN "shipping" ELSE checkoutStep

\* handleBack
handleBack ==
  IF checkoutStep = "payment" THEN "shipping"
  ELSE IF checkoutStep = "review" THEN "payment"
  ELSE checkoutStep

\* the user presses Back, which is shown on every step of the form but the
\* first
Back ==
  /\ FormShown
  /\ checkoutStep # "shipping"
  /\ checkoutStep' = handleBack
  /\ last' = [op |-> "back", step |-> checkoutStep]
  /\ UNCHANGED <<location, clientCartItems, form, createOrderMutation>>
  /\ UNCHANGED netVars
  /\ UNCHANGED storeVars

\* what POST /api/orders does with a request that passed its checks:
\* createOrder with the order data and the lines, then clearCart
acceptedOrder(user, body, now) ==
  LET elems == body.items.elems
      r == createOrder([userId |-> user, total |-> body.orderData.total[1].v,
                        status |-> Some(body.orderData.status[1].v)],
                       [i \in 1..Len(elems) |->
                          [productId |-> elems[i].productId[1].v,
                           quantity |-> elems[i].quantity[1].v,
                           price |-> elems[i].price[1].v]],
                       now)
  IN  [orders |-> r.orders, orderItems |-> r.orderItems, orderId |-> r.orderId,
       orderItemId |-> r.orderItemId, cartItems |-> clearCart(user)]

\* the server accepts the order request: the order is stored, the user's
\* cart is cleared and 201 is on its way to the page
OrderRequestAccepted ==
  \E now \in clock..Min(clock + 1, MaxClock) :
    LET r == acceptedOrder(CheckoutUser, createOrderMutation.request[1], now)
    IN  /\ createOrderMutation.status = "pending"
        /\ orderResponse = None
        /\ r.orderId <= MaxOrderId + 1
        /\ r.orderItemId <= MaxOrderItemId + 1
        /\ orders' = r.orders
        /\ orderItems' = r.orderItems
        /\ orderId' = r.orderId
        /\ orderItemId' = r.orderItemId
        /\ cartItems' = r.cartItems
        /\ clock' = now
        /\ orderResponse' = Some(201)
        /\ last' = [op |-> "accepted", step |-> checkoutStep]
        /\ UNCHANGED <<cartItemId, calls, location, clientCartItems, checkoutStep, form,
                       createOrderMutation, clearCartMutation, cartQuery>>

\* the server rejects the order request, as POST /api/orders does with a
\* body it sends back with 400
OrderRequestRejected ==
  LET r == postOrders(Some(CheckoutUser), createOrderMutation.request[1], clock)
  IN  /\ createOrderMutation.status = "pending"
      /\ orderResponse = None
      /\ r.status # 201
      /\ orderResponse' = Some(r.status)
      /\ last' = [op |-> "rejected", step |-> checkoutStep]
      /\ UNCHANGED <<location, clientCartItems, checkoutStep, form,
                     createOrderMutation, clearCartMutation, cartQuery>>
      /\ UNCHANGED storeVars

\* the page receives the success: onSuccess calls clearCart(), which sends
\* DELETE /api/cart, and sets the step (a state update of an unmounted page
\* is dropped)
OrderRequestSucceeds ==
  /\ createOrderMutation.status = "pending"
  /\ orderResponse = Some(201)
  /\ createOrderMutation' = [status |-> "success", request |-> None]
  /\ orderResponse' = None
  /\ clearCartMutation' = "pending"
  /\ checkoutStep' = IF location = "/checkout" THEN "confirmation" ELSE checkoutStep
  /\ last' = [op |-> "onSuccess", step |-> checkoutStep]
  /\ UNCHANGED <<location, clientCartItems, form, cartQuery>>
  /\ UNCHANGED storeVars

\* the page receives the failure: onError shows a toast
OrderRequestFails ==
  /\ createOrderMutation.status = "pending"
  /\ orderResponse # None
  /\ orderResponse # Some(201)
  /\ createOrderMutation' = [status |-> "error", request |-> None]
  /\ orderResponse' = None
  /\ last' = [op |-> "onError", step |-> checkoutStep]
  /\ UNCHANGED <<location, clientCartItems, checkoutStep, form, clearCartMutation,
                 cartQuery>>
  /\ UNCHANGED storeVars

\* DELETE /api/cart of clearCartMutation is served and its onSuccess
\* invalidates the cart query
ClearCartSucceeds ==
  /\ clearCartMutation = "pending"
  /\ cartItems' = clearCart(CheckoutUser)
  /\ clearCartMutation' = "idle"
  /\ cartQuery' = "invalidated"
  /\ last' = [op |-> "clearCart", step |-> checkoutStep]
  /\ UNCHANGED <<cartItemId, orders, orderItems, orderId, orderItemId, clock, calls>>
  /\ UNCHANGED <<location, clientCartItems, checkoutStep, form, createOrderMutation,
                 orderResponse>>

\* handleRemoveItem of the cart sidebar in the page's header: DELETE
\* /api/cart/:id is served and onSuccess invalidates the cart query
RemoveItem ==
  \E i \in 1..Len(clientCartItems) :
    /\ location = "/checkout"
    /\ cartItems' = removeCartItem(clientCartItems[i].id)
    /\ cartQuery' = "invalidated"
    /\ last' = [op |-> "removeItem", step |-> checkoutStep]
    /\ UNCHANGED <<cartItemId, orders, orderItems, orderId, orderItemId, clock, calls>>
    /\ UNCHANGED <<location, clientCartItems, checkoutStep, form, createOrderMutation,
                   orderResponse, clearCartMutation>>

\* the body of the answer of GET /api/cart: the user's cart items, each with
\* its product (every product of a cart of the page is in the catalog)
getCart(user) ==
  LET items == getCartItems(user)
  IN  [i \in 1..Len(items) |-> [items[i] EXCEPT !.product = @[1]]]

\* the invalidated cart query fetches GET /api/cart again and the page
\* renders with the cart it delivers
RefetchCart ==
  /\ cartQuery = "invalidated"
  /\ cartQuery' = "fresh"
  /\ clientCartItems' = getCart(CheckoutUser)
  /\ location' = rendered(location, getCart(CheckoutUser), checkoutStep)
  /\ last' = [op |-> "refetch", step |-> checkoutStep]
  /\ UNCHANGED <<checkoutStep, form, createOrderMutation, orderResponse,
                 clearCartMutation>>
  /\ UNCHANGED storeVars

\* the buttons of the confirmation step navigate away
LeaveConfirmation ==
  \E to \in {"/", "/orders"} :
    /\ location = "/checkout"
    /\ checkoutStep = "confirmation"
    /\ location' = to
    /\ last' = [op |-> "navigate", step |-> checkoutStep]
    /\ UNCHANGED <<clientCartItems, checkoutStep, form, createOrderMutation>>
    /\ UNCHANGED netVars
    /\ UNCHANGED storeVars

NextCheckout ==
  \/ EditShipping
  \/ EditPayment
  \/ Submit
  \/ Back
  \/ OrderRequestAccepted
  \/ OrderRequestRejected
  \/ OrderRequestSucceeds
  \/ OrderRequestFails
  \/ ClearCartSucceeds
  \/ RemoveItem
  \/ RefetchCart
  \/ LeaveConfirmation

\* one checkout page from the moment it is opened; the answer to its order
\* request is the network's
SpecCheckout == InitCheckout /\ [][NextCheckout]_vars

(***************************************************************************)
(* Properties of the catalog.                                              *)
(***************************************************************************)
withoutPaging(options) == [options EXCEPT !.offset = None, !.limit = None]

\* C1: for every filter (categoryId, featured, search), getProductCount
\* returns the number of products getProducts returns for that filter
\* without offset and limit.
C1_CountEqualsListLength ==
  last.op = "getProductCount" =>
    last.ret = Len(getProducts(withoutPaging(last.options)))

(***************************************************************************)
(* Properties of the cart.                                                 *)
(***************************************************************************)
\* C2: after any sequence of addCartItem, updateCartItem, removeCartItem and
\* clearCart calls, each run to completion, the cart holds at most one line
\* item for each (userId, productId) pair.
C2_OneLinePerUserProduct ==
  \A a \in DOMAIN cartItems, b \in DOMAIN cartItems :
    (cartItems[a].userId = cartItems[b].userId
       /\ cartItems[a].productId = cartItems[b].productId) => a = b

\* an addCartItem found the pair present while the cart held another line
C2_Witness ==
  /\ last.op = "addCartItem"
  /\ last.existing # None
  /\ Cardinality(DOMAIN cartItems) >= 2

linesOf(items, userId, productId) ==
  {id \in DOMAIN items :
     items[id].userId = userId /\ items[id].productId = productId}

\* C3: addCartItem for a pair that already has a line item creates no line
\* item, keeps that item's id and sets its quantity to the old quantity plus
\* the added one; two additions of a product by a user leave one line item
\* whose quantity is the sum of both.
C3_AddMergesIntoExistingLine ==
  [][last'.op = "addCartItem" =>
       LET arg == last'.arg
           existing == getCartItem(arg.userId, arg.productId)
       IN  /\ existing # None =>
                 /\ DOMAIN cartItems' = DOMAIN cartItems
                 /\ cartItemId' = cartItemId
                 /\ last'.ret.id = existing[1].id
                 /\ last'.ret.quantity = existing[1].quantity + arg.quantity
                 /\ cartItems'[existing[1].id] = last'.ret
           /\ (last.op = "addCartItem" /\ last.existing = None
                 /\ last.arg.userId = arg.userId
                 /\ last.arg.productId = arg.productId) =>
                 /\ linesOf(cartItems', arg.userId, arg.productId) = {last.ret.id}
                 /\ cartItems'[last.ret.id].quantity =
                      last.arg.quantity + arg.quantity]_vars

\* an addCartItem merged into a present line item
C3_Witness ==
  /\ last.op = "addCartItem"
  /\ last.existing # None
  /\ last.ret.id = last.existing[1].id
  /\ last.ret.quantity > last.existing[1].quantity

\* C8: clearCart(userId) removes every line item of userId, so that
\* getCartItems(userId) is empty afterwards, and leaves the line items of
\* every other user unchanged.
C8_ClearCartRemovesOnlyOwnLines ==
  [][last'.op = "clearCart" =>
       /\ \A id \in DOMAIN cartItems' : cartItems'[id].userId # last'.userId
       /\ DOMAIN cartItems' \subseteq DOMAIN cartItems
       /\ \A id \in DOMAIN cartItems :
            cartItems[id].userId # last'.userId =>
              id \in DOMAIN cartItems' /\ cartItems'[id] = cartItems[id]]_vars

\* a clearCart deleted line items while another user's line item stayed
C8_Witness ==
  /\ last.op = "clearCart"
  /\ last.userCartItems # {}
  /\ \E id \in DOMAIN cartItems : cartItems[id].userId # last.userId
  /\ getCartItems(last.userId) = <<>>

(***************************************************************************)
(* Properties of the orders.                                               *)
(***************************************************************************)
\* C4: createOrder called with an empty sequence of line items creates no
\* order: orders and order line items are the same after the call as before.
C4_EmptyOrderCreatesNothing ==
  [][(last'.op = "createOrder" /\ last'.items = <<>>) =>
       (orders' = orders /\ orderItems' = orderItems)]_vars

\* the productId, quantity and price of a line item
lineOf(item) ==
  [productId |-> item.productId, quantity |-> item.quantity, price |-> item.price]

\* C7: after createOrder, getOrder(result.id) returns exactly the line
\* items passed in, each with the price passed in, whatever the price of the
\* product in the catalog.
C7_OrderKeepsPassedPrices ==
  last.op = "createOrder" =>
    LET found == getOrder(last.ret.id)
    IN  /\ found # None
        /\ Len(found[1].items) = Len(last.items)
        /\ \A i \in 1..Len(last.items) :
             lineOf(found[1].items[i]) = lineOf(last.items[i])

\* a second order was created with a line whose price is not the live one
C7_Witness ==
  /\ last.op = "createOrder"
  /\ last.ret.id > 1
  /\ \E i \in 1..Len(last.items) :
       last.items[i].price # products[last.items[i].productId].price
  /\ getOrder(last.ret.id)[1].items # <<>>

(***************************************************************************)
(* Properties of the order route.                                          *)
(***************************************************************************)
\* C5: a POST /api/orders request that is rejected (items missing, not an
\* array or empty, or the header or a line failing its schema) leaves the
\* orders, the order line items and the requester's cart unchanged.
C5_RejectedOrderChangesNothing ==
  [][(last'.op = "POST /api/orders" /\ last'.status # 201) =>
       (orders' = orders /\ orderItems' = orderItems /\ cartItems' = cartItems
          /\ orderId' = orderId /\ orderItemId' = orderItemId)]_vars

\* a request was rejected for one of its lines while the requester had a
\* line item in the cart
C5_Witness ==
  /\ last.op = "POST /api/orders"
  /\ last.status = 400
  /\ last.exit = "item schema"
  /\ getCartItems(last.user[1]) # <<>>

\* the request the checkout review step sends: a valid header and a
\* non-empty array of lines that carry productId, quantity and price only
isCheckoutRequest(user, body) ==
  /\ user # None
  /\ isString(body.orderData.total)
  /\ body.orderData.status = None \/ isString(body.orderData.status)
  /\ body.items.kind = "array"
  /\ body.items.elems # <<>>
  /\ \A i \in 1..Len(body.items.elems) :
       LET line == body.items.elems[i]
       IN  /\ line.orderId = None
           /\ isNumber(line.productId)
           /\ isNumber(line.quantity)
           /\ isString(line.price)

\* C6: an order request of an authenticated user with a valid header and a
\* non-empty list of lines that each carry exactly productId, quantity and
\* price is accepted: it creates one order and one order line item per
\* line, each with the new order's id as orderId.
C6_CheckoutRequestAccepted ==
  [][\A user \in Requesters, body \in OrderBodies, now \in 0..MaxClock :
       (isCheckoutRequest(user, body) /\ PostApiOrdersOf(user, body, now)) =>
         /\ last'.status = 201
         /\ DOMAIN orders' = (DOMAIN orders) \cup {orderId}
         /\ Cardinality((DOMAIN orderItems') \ (DOMAIN orderItems)) =
              Len(body.items.elems)
         /\ \A k \in (DOMAIN orderItems') \ (DOMAIN orderItems) :
              orderItems'[k].orderId = orderId]_vars

(***************************************************************************)
(* Properties of the checkout page.                                        *)
(***************************************************************************)
cardFieldsFilled ==
  /\ form.cardNumber # ""
  /\ form.cardName # ""
  /\ form.expMonth # ""
  /\ form.expYear # ""
  /\ form.cvv # ""

\* C9: in the payment step a submit with payment method "credit" moves the
\* checkout to review only if the five card fields are all non-empty and
\* otherwise leaves the step at payment; a submit with "paypal" or "bank"
\* moves to review whatever the card fields contain.
C9_PaymentGate ==
  [][(last'.op = "submit" /\ checkoutStep = "payment") =>
       IF form.paymentMethod = "credit"
       THEN IF cardFieldsFilled THEN checkoutStep' = "review"
            ELSE checkoutStep' = "payment"
       ELSE checkoutStep' = "review"]_vars

\* a credit submit with every card field but the CVV filled stayed at payment
C9_Witness ==
  /\ last.op = "submit"
  /\ last.step = "payment"
  /\ checkoutStep = "payment"
  /\ form.paymentMethod = "credit"
  /\ form.cardNumber # "" /\ form.cardName # ""
  /\ form.expMonth # "" /\ form.expYear # ""
  /\ form.cvv = ""

C12_FailureStaysAtReview ==
  [][/\ last'.op = "onError" =>
          /\ checkoutStep' = "review"
          /\ clientCartItems' = clientCartItems
          /\ cartItems' = cartItems
          /\ clearCartMutation' = clearCartMutation
          /\ createOrderMutation'.status = "error"
     /\ (createOrderMutation'.status = "pending"
           /\ createOrderMutation.status # "pending") => last'.op = "submit"]_vars

\* C13: in every state where the client's cart is empty and the checkout
\* step is shipping, payment or review, the page has navigated away to "/"
\* and shows no form, so no step transition and no order request starts from
\* such a state.
C13_EmptyCartRedirects ==
  /\ []((clientCartItems = <<>> /\ checkoutStep # "confirmation") =>
          (location = "/" /\ ~FormShown))
  /\ [][(clientCartItems = <<>> /\ checkoutStep # "confirmation") =>
          /\ checkoutStep' = checkoutStep
          /\ createOrderMutation'.status = "pending" =>
                createOrderMutation.status = "pending"]_vars

\* a refetch delivered an empty cart to a page at the review step, which
\* navigated away
C13_Witness ==
  /\ last.op = "refetch"
  /\ clientCartItems = <<>>
  /\ checkoutStep = "review"
  /\ location = "/"

(***************************************************************************)
(* Properties of stored orders.                                            *)
(***************************************************************************)
\* price times quantity summed over the line items of the order
linesTotal(id) ==
  LET OfOrder(item) == item.orderId = id
      its == SelectSeq(MapValues(orderItems), OfOrder)
      RECURSIVE sum(_)
      sum(k) == IF k = 0 THEN 0 ELSE sum(k - 1) + its[k].price * its[k].quantity
  IN  sum(Len(its))

\* C14: every stored order's total equals the sum of price times quantity
\* over that order's own line items.
C14_TotalIsSumOfLines ==
  \A id \in DOMAIN orders : orders[id].total = linesTotal(id)

(***************************************************************************)
(* Properties of the order summary.                                        *)
(***************************************************************************)
\* the double x is the decimal t / 10000 when rounded to four decimals:
\* |x - t / 10000| < 1 / 20000
isDecimal(x, t) ==
  LET k == -x.e
      a == bigMulSmall(x.m, 20000)
      b == shiftLeft(bigOf(t), k + 1)
      p == shiftLeft(<<1>>, k)
  IN  /\ k >= 0
      /\ bigCmp(a, trim(bigAdd(b, p))) = -1
      /\ bigCmp(b, trim(bigAdd(a, p))) = -1

\* C15: for any cart the checkout total is subtotal + shipping + tax, where
\* subtotal is the sum of price times quantity over the cart lines, shipping
\* is 9.99 when subtotal > 0 and 0 otherwise, and tax is 8% of subtotal (each
\* to the fourth decimal, the numbers being doubles); one line of price
\* 19.99 with quantity 2 gives the numbers 39.98, 9.99, 3.1984 and 53.1684.
C15_OrderSummary ==
  last.op = "summary" =>
    /\ isDecimal(last.summary.subtotal, subtotal(clientCartItems) * 100)
    /\ isDecimal(last.summary.shippingCost,
                 IF subtotal(clientCartItems) > 0 THEN 99900 ELSE 0)
    /\ isDecimal(last.summary.tax, subtotal(clientCartItems) * 8)
    /\ isDecimal(last.summary.total,
                 subtotal(clientCartItems) * 108
                   + (IF subtotal(clientCartItems) > 0 THEN 99900 ELSE 0))
    /\ clientCartItems = <<clientLine(1, 18, 2)>> =>
         /\ last.summary.subtotal = Number(3998, 100)
         /\ last.summary.shippingCost = Number(999, 100)
         /\ last.summary.tax = Number(31984, 10000)
         /\ last.summary.total = Number(531684, 10000)

\* the summary of one line of price 19.99 with quantity 2 was computed
C15_Witness ==
  /\ last.op = "summary"
  /\ clientCartItems = <<clientLine(1, 18, 2)>>
  /\ products[18].price = 1999
  /\ last.summary.total = Number(531684, 10000)

(***************************************************************************)
(* Properties of the cart routes.                                          *)
(***************************************************************************)
\* C16: in every state reachable through the cart routes every cart line
\* item has an integer quantity of at least 1.
C16_QuantityAtLeastOne ==
  \A id \in DOMAIN cartItems :
    cartItems[id].quantity \in Int /\ cartItems[id].quantity >= 1

(***************************************************************************)
(* Properties of the whole store.                                          *)
(***************************************************************************)
\* C17: once createOrder has returned, no later operation of the store (a
\* cart operation, a further createOrder, a read) changes or removes that
\* order or any of its line items.
C17_OrdersAreNeverChanged ==
  [][/\ \A id \in DOMAIN orders : id \in DOMAIN orders' /\ orders'[id] = orders[id]
     /\ \A k \in DOMAIN orderItems :
          k \in DOMAIN orderItems' /\ orderItems'[k] = orderItems[k]]_vars

\* with an order of two line items stored, a cart was cleared
C17_Witness ==
  /\ last.op = "clearCart"
  /\ last.userCartItems # {}
  /\ \E id \in DOMAIN orders :
       Cardinality({k \in DOMAIN orderItems : orderItems[k].orderId = id}) = 2

(***************************************************************************)
(* Properties of concurrent calls.                                         *)
(***************************************************************************)
linesOfOrder(id) == {k \in DOMAIN orderItems : orderItems[k].orderId = id}

\* C18: createOrder has no suspension point between writing the order and
\* writing its last line item, so in every interleaving of concurrent store
\* calls at their awaits getOrder and getOrders never observe an order with
\* only part of its line items, nor line items whose order is absent.
C18_NoPartialOrder ==
  /\ \A k \in DOMAIN orderItems : orderItems[k].orderId \in DOMAIN orders
  /\ \A i \in 1..Len(calls) :
       /\ calls[i].method = "createOrder" =>
            /\ calls[i].pc = "returned"
            /\ calls[i].id \in DOMAIN orders
            /\ Cardinality(linesOfOrder(calls[i].id)) = Len(calls[i].items)
       /\ (calls[i].method = "getOrder" /\ calls[i].ret # None) =>
            \E j \in 1..Len(calls) :
              /\ calls[j].method = "createOrder"
              /\ calls[j].id = calls[i].ret[1].id
              /\ Len(calls[i].ret[1].items) = Len(calls[j].items)
       /\ calls[i].method = "getOrders" =>
            \A n \in 1..Len(calls[i].ret[1]) :
              \E j \in 1..(i - 1) :
                /\ calls[j].method = "createOrder"
                /\ calls[j].id = calls[i].ret[1][n].id

\* getOrder returned an order of two line items while an addCartItem awaited
C18_Witness ==
  \E i, j \in 1..Len(calls) :
    /\ calls[i].method = "getOrder"
    /\ calls[i].pc = "returned"
    /\ calls[i].ret # None
    /\ Len(calls[i].ret[1].items) = 2
    /\ calls[j].method = "addCartItem"
    /\ calls[j].pc = "await"

\* C19: two overlapping addCartItem calls for the same (userId, productId)
\* pair, each suspended after its lookup and before its write, can both take
\* the insert branch: a call whose lookup found nothing inserts a new line
\* item when it runs on, whatever the map holds by then, and a state with two
\* line items for the pair is reachable.
C19_OverlappingAddsBothInsert ==
  [][(last'.op = "resume"
        /\ calls[last'.call].method = "addCartItem"
        /\ calls[last'.call].existingItem = None) =>
       /\ DOMAIN cartItems' = (DOMAIN cartItems) \cup {cartItemId}
       /\ cartItemId \notin DOMAIN cartItems
       /\ cartItems'[cartItemId].userId = calls[last'.call].insertCartItem.userId
       /\ cartItems'[cartItemId].productId = calls[last'.call].insertCartItem.productId
       /\ \A id \in DOMAIN cartItems : cartItems'[id] = cartItems[id]]_vars

\* two calls for one pair have returned and the pair has two line items
C19_Witness ==
  \E i, j \in 1..Len(calls) :
    /\ i # j
    /\ calls[i].method = "addCartItem" /\ calls[i].pc = "returned"
    /\ calls[j].method = "addCartItem" /\ calls[j].pc = "returned"
    /\ calls[i].insertCartItem = calls[j].insertCartItem
    /\ calls[i].ret[1].id # calls[j].ret[1].id
    /\ Cardinality({id \in DOMAIN cartItems :
                      /\ cartItems[id].userId = calls[i].insertCartItem.userId
                      /\ cartItems[id].productId = calls[i].insertCartItem.productId}) = 2

(***************************************************************************)
(* Properties of the catalog filters.                                      *)
(***************************************************************************)
\* the product satisfies every criterion the options supply
satisfies(p, options) ==
  /\ options.categoryId # None => p.categoryId = options.categoryId[1]
  /\ options.featured = Some(TRUE) => p.isFeatured
  /\ options.search # None => matchesSearch(p, options.search[1])

\* C20: for every filter, getProducts without paging returns exactly the
\* products that satisfy every supplied criterion: categoryId equal to the
\* supplied id (for every supplied id value, 0 included), isFeatured true
\* when featured is requested, and the search text contained
\* case-insensitively in the name or in the description.
C20_FiltersAreExact ==
  (last.op = "getProducts" /\ last.options.offset = None
     /\ last.options.limit = None) =>
    {last.ret[i] : i \in 1..Len(last.ret)} =
      {id \in DOMAIN products : satisfies(products[id], last.options)}

(***************************************************************************)
(* Properties of the catalog order and paging.                             *)
(***************************************************************************)
\* the ids are in the order the sort key asks for
inOrder(sort, ids) ==
  \A i \in 1..Len(ids), j \in 1..Len(ids) :
    i < j =>
      LET a == products[ids[i]]
          b == products[ids[j]]
      IN  CASE sort = Some("price-asc")  -> a.price <= b.price
            [] sort = Some("price-desc") -> a.price >= b.price
            [] sort = Some("rating")     -> a.rating >= b.rating
            [] sort = Some("newest")     -> a.createdAt >= b.createdAt
            [] OTHER                     -> a.id < b.id

\* C21: getProducts returns the filtered products ordered by the sort key:
\* price-asc by non-decreasing numeric price (so the product priced 89.99
\* comes before every product priced 129.99), price-desc by non-increasing
\* price, rating by non-increasing rating, newest by non-increasing creation
\* timestamp, and an absent or unrecognized key by ascending id; sorting
\* neither drops nor duplicates a product: the unpaged result has each
\* product of the unsorted result exactly once.
C21_SortedBySortKey ==
  last.op = "getProducts" =>
    /\ inOrder(last.options.sort, last.ret)
    /\ (last.options.offset = None \/ last.options.limit = None) =>
         LET unsorted == Ids(getProducts([last.options EXCEPT !.sort = None]))
         IN  /\ Len(last.ret) = Len(unsorted)
             /\ {last.ret[i] : i \in 1..Len(last.ret)} =
                  {unsorted[i] : i \in 1..Len(unsorted)}
             /\ \A i \in 1..Len(last.ret), j \in 1..Len(last.ret) :
                  last.ret[i] = last.ret[j] => i = j

\* the whole catalog was asked for by ascending price: the product priced
\* 89.99 is listed before the product priced 129.99, against their ids
C21_Witness ==
  /\ last.op = "getProducts"
  /\ last.options.sort = Some("price-asc")
  /\ Len(last.ret) = Len(productData)
  /\ \E i \in 1..Len(last.ret), j \in 1..Len(last.ret) :
       /\ i < j
       /\ products[last.ret[i]].price = 8999
       /\ products[last.ret[j]].price = 12999
       /\ last.ret[i] > last.ret[j]

\* C22: for every filter and sort key, when both offset and limit are
\* supplied getProducts returns exactly the elements at positions offset to
\* offset+limit-1 (counted from 0) of the filtered-then-sorted sequence,
\* fewer when the sequence ends earlier; when either is absent it returns
\* the whole filtered-then-sorted sequence.
C22_PageIsSliceOfSorted ==
  last.op = "getProducts" =>
    LET whole  == Ids(getProducts(withoutPaging(last.options)))
        offset == last.options.offset
        limit  == last.options.limit
    IN  IF offset # None /\ limit # None
        THEN last.ret = SubSeq(whole, Max(offset[1], 0) + 1,
                               Min(offset[1] + limit[1], Len(whole)))
        ELSE last.ret = whole

(***************************************************************************)
(* Properties of the order reads.                                          *)
(***************************************************************************)
\* C23: GET /api/orders/:id returns an order's data only when the order's
\* userId equals the authenticated requester's id; an unknown id is answered
\* 404 and another user's order 403, and in neither case is order data
\* returned.
C23_OrderDetailOnlyForOwner ==
  last.op = "GET /api/orders/:id" =>
    /\ last.body # None =>
         /\ last.user # None
         /\ last.id \in DOMAIN orders
         /\ orders[last.id].userId = last.user[1]
         /\ last.body[1].id = last.id
    /\ (last.user # None /\ last.id \notin DOMAIN orders) =>
         (last.status = 404 /\ last.body = None)
    /\ (last.user # None /\ last.id \in DOMAIN orders
          /\ orders[last.id].userId # last.user[1]) =>
         (last.status = 403 /\ last.body = None)

\* a user asked for the order of another user and was refused
C23_Witness ==
  /\ last.op = "GET /api/orders/:id"
  /\ last.user # None
  /\ last.id \in DOMAIN orders
  /\ orders[last.id].userId # last.user[1]
  /\ last.status = 403

\* C24: getOrders(userId) returns exactly the orders whose userId is the
\* given one, each once, ordered by non-increasing creation timestamp, after
\* any sequence of createOrder calls by any users.
C24_OrdersOfUserNewestFirst ==
  last.op = "getOrders" =>
    LET owned == {id \in DOMAIN orders : orders[id].userId = last.userId}
    IN  /\ {last.ret[i].id : i \in 1..Len(last.ret)} = owned
        /\ Len(last.ret) = Cardinality(owned)
        /\ \A i \in 1..Len(last.ret) : last.ret[i] = orders[last.ret[i].id]
        /\ \A i \in 1..Len(last.ret), j \in 1..Len(last.ret) :
             i < j => last.ret[i].createdAt >= last.ret[j].createdAt

\* a user placed two orders at different times and got the later one first
C24_Witness ==
  /\ last.op = "getOrders"
  /\ Len(last.ret) = 2
  /\ last.ret[1].createdAt > last.ret[2].createdAt
  /\ last.ret[1].id > last.ret[2].id

(***************************************************************************)
(* Properties of the calls with unknown keys.                              *)
(***************************************************************************)
\* C25: updateCartItem with an id that is not in the cart returns an empty
\* result and removeCartItem with such an id returns normally, and in both
\* cases the cart is unchanged; getProduct, getCartItem and getOrder return
\* an empty result for an unknown key without raising an error.
C25_UnknownKeysAreNoOps ==
  [][/\ (last'.op = "updateCartItem" /\ last'.id \notin DOMAIN cartItems) =>
          (last'.ret = None /\ cartItems' = cartItems /\ cartItemId' = cartItemId)
     /\ (last'.op = "removeCartItem" /\ last'.id \notin DOMAIN cartItems) =>
          (cartItems' = cartItems /\ cartItemId' = cartItemId)
     /\ (last'.op = "getProduct" /\ last'.id \notin DOMAIN products) =>
          last'.ret = None
     /\ (last'.op = "getCartItem"
           /\ ~ \E id \in DOMAIN cartItems :
                  /\ cartItems[id].userId = last'.userId
                  /\ cartItems[id].productId = last'.productId) =>
          last'.ret = None
     /\ (last'.op = "getOrder" /\ last'.id \notin DOMAIN orders) =>
          last'.ret = None]_vars

\* updateCartItem was called with an id that a cart with lines does not hold
C25_Witness ==
  /\ last.op = "updateCartItem"
  /\ last.id \notin DOMAIN cartItems
  /\ last.ret = None
  /\ cartItems # EmptyMap

(***************************************************************************)
(* Properties of the ids.                                                  *)
(***************************************************************************)
\* C26: every new cart line item, order and order line item gets an id that
\* is strictly greater than every id assigned earlier to its entity type, so
\* an id is never reused, also after removeCartItem or clearCart deleted the
\* item that held it.  Every id assigned so far lies below its counter, a
\* counter never goes down, and a new record's id is not below the counter.
C26_IdsAreFresh ==
  /\ [](/\ \A id \in DOMAIN cartItems : id < cartItemId
        /\ \A id \in DOMAIN orders : id < orderId
        /\ \A id \in DOMAIN orderItems : id < orderItemId)
  /\ [][/\ cartItemId' >= cartItemId
        /\ orderId' >= orderId
        /\ orderItemId' >= orderItemId
        /\ \A id \in (DOMAIN cartItems') \ DOMAIN cartItems : id >= cartItemId
        /\ \A id \in (DOMAIN orders') \ DOMAIN orders : id >= orderId
        /\ \A id \in (DOMAIN orderItems') \ DOMAIN orderItems : id >= orderItemId
        /\ (last'.op = "addCartItem" /\ last'.existing = None) =>
             /\ last'.ret.id >= cartItemId
             /\ last'.ret.id \notin DOMAIN cartItems
        /\ last'.op = "createOrder" =>
             /\ last'.ret.id >= orderId
             /\ Cardinality(DOMAIN orderItems') =
                  Cardinality(DOMAIN orderItems) + Len(last'.items)]_vars

\* a line was added after the line with id 1 had been deleted, and it did
\* not get the id 1 again
C26_Witness ==
  /\ last.op = "addCartItem"
  /\ last.existing = None
  /\ 1 \notin DOMAIN cartItems
  /\ last.ret.id > 1

(***************************************************************************)
(* Properties of the Back button.                                          *)
(***************************************************************************)
\* C27: Back in the payment step sets the step to shipping and Back in the
\* review step sets it to payment, with no validation, and changes no form
\* field value; Back in the shipping or confirmation step changes nothing.
C27_BackGoesOneStepBack ==
  [][last'.op = "back" =>
       /\ checkoutStep' = CASE checkoutStep = "payment" -> "shipping"
                            [] checkoutStep = "review"  -> "payment"
                            [] OTHER                    -> checkoutStep
       /\ form' = form
       /\ createOrderMutation' = createOrderMutation
       /\ clientCartItems' = clientCartItems]_vars

\* Back was pressed at review and at payment with fields filled in; at
\* payment the card fields did not pass the payment check
C27_Witness ==
  /\ last.op = "back"
  /\ last.step = "payment"
  /\ checkoutStep = "shipping"
  /\ form.firstName # ""
  /\ form.paymentMethod = "credit"
  /\ ~validatePaymentFields(form)

(***************************************************************************)
(* Properties of ownership and of the references to the catalog.           *)
(***************************************************************************)
\* C28: a PUT /api/cart/:id or DELETE /api/cart/:id request by authenticated
\* user A changes only line items owned by A: the line items of every other
\* user are the same after the request as before it.
C28_CartRequestsTouchOwnLines ==
  [][(last'.op \in {"PUT /api/cart/:id", "DELETE /api/cart/:id"}
        /\ last'.user # None) =>
       \A id \in DOMAIN cartItems :
         cartItems[id].userId # last'.user[1] =>
           (id \in DOMAIN cartItems' /\ cartItems'[id] = cartItems[id])]_vars

\* C29: after any sequence of cart route requests, every cart line item's
\* productId refers to a product that exists in the catalog, so getCartItems
\* never returns a line item whose joined product is missing.
C29_LinesReferToProducts ==
  /\ \A id \in DOMAIN cartItems : cartItems[id].productId \in DOMAIN products
  /\ \A u \in Users : \A i \in 1..Len(getCartItems(u)) :
       getCartItems(u)[i].product # None

\* C30: every cart line item and every order created through the routes is
\* owned by the authenticated requester: a userId placed in the request body
\* never determines the owner of the created record.
C30_RequesterOwnsWhatIsCreated ==
  [][/\ last'.op = "POST /api/cart" =>
          \A id \in (DOMAIN cartItems') \ DOMAIN cartItems :
            last'.user # None /\ cartItems'[id].userId = last'.user[1]
     /\ last'.op = "POST /api/orders" =>
          \A id \in (DOMAIN orders') \ DOMAIN orders :
            last'.user # None /\ orders'[id].userId = last'.user[1]]_vars

\* user 1 placed an order whose orderData names user 2 as the owner: the
\* order created is user 1's
C30_Witness ==
  /\ last.op = "POST /api/orders"
  /\ last.status = 201
  /\ last.user = Some(1)
  /\ last.bodyUserId = Some(Num(2))
  /\ \E id \in DOMAIN orders : orders[id].userId = 1 /\ id = orderId - 1

====
